---- MODULE Spec2Model ----
(***************************************************************************)
(* Frame bridge of agus-maps-flutter (Windows): the WGL context factory    *)
(* with its D3D11 shared texture, the frame transfer, the frame-ready      *)
(* notification throttle, the start-up keep-alive countdown, and the       *)
(* surface life cycle driven by the Flutter plugin (create, resize,        *)
(* destroy, the compositor's sampling callback).                           *)
(*                                                                         *)
(* Object identities: the k-th call of CreateSharedTexture creates shared  *)
(* texture and staging texture [id |-> k, w, h] and shareable handle k;    *)
(* 0 is the null handle and the id of an empty ComPtr.                     *)
(***************************************************************************)
EXTENDS Integers, Sequences, FiniteSets, TLC

\* ------------------------------------------------------------- bounds ----
MaxDim == 2            \* surface widths and heights range over 1..MaxDim
MaxCreates == 2        \* CreateSharedTexture calls explored (construction is 1)
InitialFrameBudget == 2 \* start value of m_initialFrameCount in the model
MaxTicks == 2          \* clock advances explored
TickMs == 8            \* one clock advance, in ms (a 120 Hz frame)
MaxEngineCalls == 1    \* frame-ready triggers explored on the engine thread
MaxUploadPresents == 1 \* Present() calls explored on the upload context
MaxOrigin == 1         \* viewport origins range over 0..MaxOrigin

\* --------------------------------------------------- program constants ----
kMinFrameInterval == 16

MaxPresents == InitialFrameBudget + 1   \* Present() calls explored
Dims == 1..MaxDim
Null == 0

Render == "render"      \* the renderer's draw thread
Platform == "platform"  \* the thread that delivers agus_native_on_size_changed
Engine == "engine"      \* a second thread that triggers frame-ready
Threads == {Render, Platform, Engine}

VARIABLES
  wgl,      \* AgusWglContextFactory: m_d3dDevice (TRUE when not null),
            \* m_width, m_height, m_sharedHandle,
            \* m_sharedTexture, m_stagingTexture, m_mutex ("free" or the holder),
            \* m_renderedWidth, m_renderedHeight, m_frameCallback and
            \* m_keepAliveCallback (TRUE when set)
  gl,       \* draw context and offscreen framebuffer: storage = size and
            \* generation of the storage of m_renderTexture / m_depthBuffer,
            \* fboComplete, viewport, scissor (<<x, y, w, h>>)
  d3d,      \* D3D11 / OS objects: closedHandles, releasedTextures,
            \* releasedStaging (ids), createCalls, completed (the k whose
            \* CreateSharedTexture returned true), mapped (id of the staging
            \* texture a transfer has mapped, or Null), flushedInto (id of
            \* the shared texture of the last flushed copy, or Null)
  current,  \* thread -> "none" | "draw" | "other": its current GL context
  m_initialFrameCount,   \* AgusWglContext (draw context)
  pc, arg, prevContext,  \* per thread: position, (width, height), saved context
  xfer,     \* locals of the transfer in progress: readWidth, readHeight, the
            \* staging / shared texture it mapped, and flushed (TRUE from the
            \* Flush of the transfer until the Present that ran it returns)
  fb,       \* colour content of the framebuffer that is read: <<x, y>> -> RGBA,
            \* y = 0 is the bottom row (OpenGL)
  pixels,   \* the CPU buffer glReadPixels filled: row-major sequence of RGBA
  stagingPixels,  \* mapped staging memory: row y -> column x -> BGRA bytes
  sharedPixels,   \* content of the shared texture, as stagingPixels
  clock,    \* steady_clock::now(), in ms
  g_lastFrameNotification,
  g_frameNotificationPending,
  g_frameReadyCallback,  \* TRUE when a callback is registered
  now,      \* thread -> the local 'now' of notifyFlutterFrameReady
  rd,       \* compositor thread: position and the values its accessors returned
  hist,     \* counters of calls made: presents, uploadPresents,
            \* keepAliveCalls, engineCalls, ticks
  dispatchLog,  \* one record per invocation of g_frameReadyCallback
  pendingOwner, \* thread whose compare_exchange set the pending flag, or "none"
  native,   \* globals of agus_maps_flutter_win.cpp: g_wglFactory and
            \* g_threadSafeFactory (TRUE when not null; the factory object
            \* lives as long as g_threadSafeFactory owns it), g_framework,
            \* g_drapeEngineCreated, g_platformInitialized, g_mutex (TRUE when
            \* held), activeFrameCallback (df::SetActiveFrameCallback),
            \* rendering (the renderer runs), call (the teardown in progress),
            \* init (how the constructor of the installed factory ended),
            \* surface ("never" | "created" | "destroyed"), dangling (the
            \* renderer's contexts belong to a factory that was deleted)
  plugin,   \* AgusMapsFlutterPlugin and Flutter's texture registrar:
            \* g_pluginInstance, texture_id_, texture_, surface_width_,
            \* surface_height_; registered (ids), nextId, doubleUnregister,
            \* marks (the MarkTextureFrameAvailable calls made)
  sample,   \* raster thread inside the sampling callback: pc, currentHandle,
            \* what was true when it was read, and the descriptor returned
  query,    \* a GetRendererName / GetRendererVersion call: pc, the thread t,
            \* the context's m_glrc, fn, and prior (what was current at entry)
  binding,  \* framebuffers of the draw context: m_lastBoundFramebuffer,
            \* forgotten (those the renderer passed to ForgetFramebuffer),
            \* fboToRead (of the last transfer, 0 before the first),
            \* bound (the GL_FRAMEBUFFER binding of the draw context)
  rel,      \* a cleanup function being executed statement by statement: fn
            \* (the function), i (the statement reached), live (the members
            \* that are not null), log (what was released, in order)
  vk        \* AgusVulkanContextFactory: m_d3dDevice, m_width, m_height,
            \* m_d3dTexture, m_sharedHandle; the OS objects closedHandles,
            \* releasedTextures, createCalls, completed; pc and arg of its caller

notifyVars == <<g_lastFrameNotification, g_frameNotificationPending,
                g_frameReadyCallback, now, dispatchLog, pendingOwner>>
pixelVars == <<fb, pixels, stagingPixels, sharedPixels>>
lifeVars == <<native, plugin, sample, rel, query, binding>>
vars == <<wgl, gl, d3d, current, m_initialFrameCount, pc, arg, prevContext, xfer,
          pixelVars, clock, notifyVars, rd, hist, lifeVars, vk>>

\* ---------------------------------------------------------- helpers ----
Min(a, b) == IF a < b THEN a ELSE b

Goto(t, label) == pc' = [pc EXCEPT ![t] = label]

\* A D3D11 texture object: its identity and the size it was created with.
Tex(k, w, h) == [id |-> k, w |-> w, h |-> h]
NoTexture == Tex(Null, 0, 0)    \* an empty ComPtr
IdOf(tex) == tex.id

\* Content of a texture that was created and never written.
UndefPixel == <<-1, -1, -1, -1>>
UndefImage(w, h) == [y \in 0..(h - 1) |-> [x \in 0..(w - 1) |-> UndefPixel]]

\* The rendered frame: every byte of it is different, so that a pixel of the
\* destination names the pixel and the channel it was copied from. Pixel
\* (x, y) is R = 16x + y + 1, G = 64 + 16x + y, B = 128 + 16x + y, and
\* A = 192 + 16x + y where x + y is even, 255 (opaque) where it is odd.
Coords == (0..(MaxDim - 1)) \X (0..(MaxDim - 1))
RenderedFrame ==
  [c \in Coords |->
     <<16 * c[1] + c[2] + 1, 64 + 16 * c[1] + c[2], 128 + 16 * c[1] + c[2],
       IF (c[1] + c[2]) % 2 = 0 THEN 192 + 16 * c[1] + c[2] ELSE 255>>]

\* wglMakeCurrent(m_hdc, m_drawGlrc) by thread t succeeds unless the draw
\* context is current on another thread.
DrawContextFree(t) == \A u \in Threads \ {t} : current[u] # "draw"

\* The calls explored: those with the current size (which recreate nothing)
\* and, until MaxCreates textures were created, those with another size.
WithinCreates(created, factory, w, h) ==
  created < MaxCreates \/ (w = factory.m_width /\ h = factory.m_height)

\* The compositor thread between two samples.
RdIdle == [pc |-> "idle", handle |-> Null, texture |-> NoTexture, w |-> 0, h |-> 0,
           closedAtRead |-> FALSE]

\* ------------------------------------------------------------ Init ----
\* The factory after a successful constructor: InitializeWGL, InitializeD3D11
\* and the first CreateSharedTexture(width, height).
InitFactory(w, h) ==
  /\ wgl = [m_d3dDevice |-> TRUE,
            m_width |-> w, m_height |-> h, m_sharedHandle |-> 1,
            m_sharedTexture |-> Tex(1, w, h), m_stagingTexture |-> Tex(1, w, h),
            m_mutex |-> "free", m_renderedWidth |-> w, m_renderedHeight |-> h,
            m_frameCallback |-> TRUE, m_keepAliveCallback |-> TRUE]
  /\ gl = [storage |-> [w |-> w, h |-> h, gen |-> 0], fboComplete |-> TRUE,
           viewport |-> <<0, 0, w, h>>, scissor |-> <<0, 0, w, h>>]
  /\ d3d = [closedHandles |-> {},
            releasedTextures |-> {}, releasedStaging |-> {},
            createCalls |-> 1, completed |-> {1},
            mapped |-> Null, flushedInto |-> Null]
  /\ m_initialFrameCount = InitialFrameBudget
  /\ stagingPixels = UndefImage(w, h) /\ sharedPixels = UndefImage(w, h)

InitThreads ==
  /\ pc = [t \in Threads |-> "idle"]
  /\ arg = [t \in Threads |-> <<0, 0>>]
  /\ prevContext = [t \in Threads |-> "none"]
  /\ xfer = [readWidth |-> 0, readHeight |-> 0, staging |-> Null, shared |-> Null,
             flushed |-> FALSE]
  /\ now = [t \in Threads |-> 0]
  /\ pixels = <<>>
  /\ rd = RdIdle

InitNotify ==
  /\ clock = kMinFrameInterval
  /\ g_lastFrameNotification = 0
  /\ g_frameNotificationPending = FALSE
  /\ dispatchLog = <<>>
  /\ pendingOwner = "none"

\* The Vulkan factory after a successful constructor: m_width(width),
\* m_height(height), InitializeD3D11, CreateSharedTexture(width, height).
InitVulkan(w, h) ==
  vk = [m_d3dDevice |-> TRUE, m_width |-> w, m_height |-> h,
        m_d3dTexture |-> Tex(1, w, h), m_sharedHandle |-> 1,
        closedHandles |-> {}, releasedTextures |-> {},
        createCalls |-> 1, completed |-> {1},
        pc |-> "idle", arg |-> <<0, 0>>]

InitHist ==
  hist = [presents |-> 0, uploadPresents |-> 0, keepAliveCalls |-> 0,
          engineCalls |-> 0, ticks |-> 0]

\* No descriptor: what the sampling callback returns for "no frame".
NoDescriptor == [handle |-> Null, width |-> 0, height |-> 0, visible_width |-> 0,
                 visible_height |-> 0, format |-> "none", release_callback |-> FALSE]

\* The raster thread between two samples.
SampleIdle == [pc |-> "idle", currentHandle |-> Null, closedAtRead |-> FALSE,
               nullAtRead |-> FALSE, textureAtRead |-> NoTexture, result |-> "none", desc |-> NoDescriptor]

\* No GetRendererName / GetRendererVersion call is running.
NoQuery == [pc |-> "idle", t |-> "none", m_glrc |-> "none", fn |-> "none",
            prior |-> "none"]

\* The framebuffer names: 0 is GL's default framebuffer, OwnFbo is the
\* factory's m_framebuffer, the others are framebuffers of the renderer.
OwnFbo == 1
RendererFbos == {2, 3}

\* The draw context before the renderer bound anything:
\* m_lastBoundFramebuffer{0}.
InitBinding == [m_lastBoundFramebuffer |-> 0, forgotten |-> {}, fboToRead |-> 0,
                bound |-> 0]

\* No cleanup function is being followed.
NoCleanup == [fn |-> "none", i |-> 1, live |-> {}, log |-> <<>>]

\* The globals and the plugin after createMapSurface(w, h) succeeded once:
\* agus_native_create_surface installed the factory, created the DrapeEngine
\* and enabled rendering; the plugin registered texture 1.
InitSurface(w, h) ==
  /\ native = [g_wglFactory |-> TRUE, g_threadSafeFactory |-> TRUE,
               g_framework |-> TRUE, g_drapeEngineCreated |-> TRUE,
               g_platformInitialized |-> TRUE, g_mutex |-> FALSE,
               activeFrameCallback |-> TRUE, rendering |-> TRUE,
               call |-> "none", init |-> "ok", surface |-> "created",
               dangling |-> FALSE]
  /\ plugin = [g_pluginInstance |-> TRUE, texture_id_ |-> 1, texture_ |-> TRUE,
               surface_width_ |-> w, surface_height_ |-> h,
               registered |-> {1}, nextId |-> 2, doubleUnregister |-> FALSE,
               marks |-> {}]
  /\ sample = SampleIdle
  /\ rel = NoCleanup
  /\ query = NoQuery
  /\ binding = InitBinding

Init ==
  /\ InitFactory(MaxDim, MaxDim)
  /\ InitVulkan(MaxDim, MaxDim)
  /\ InitThreads /\ InitNotify /\ InitHist
  /\ InitSurface(MaxDim, MaxDim)
  /\ current = [t \in Threads |-> "none"]
  /\ g_frameReadyCallback = TRUE
  /\ fb = RenderedFrame

\* ------------------------------------------- SetSurfaceSize (resize) ----
\* What no step of a resize touches.
notResize == <<m_initialFrameCount, xfer, fb, pixels, clock, notifyVars, rd,
               lifeVars, vk>>
texPixels == <<stagingPixels, sharedPixels>>
notResizeGL == <<m_initialFrameCount, xfer, fb, pixels, clock, notifyVars, rd,
                 native, plugin, sample, rel, query, vk>>

\* A thread is inside the body of SetSurfaceSize: it holds m_mutex.
ResizeBody == {"ss_makecurrent", "ss_gl", "ss_width", "ss_height",
               "cst_close", "cst_nullhandle", "cst_resetshared", "cst_resetstaging",
               "cst_createshared", "cst_gethandle", "cst_createstaging", "cst_dims"}

\* agus_native_on_size_changed(width, height) on the platform thread:
\* if (g_wglFactory) g_wglFactory->SetSurfaceSize(width, height).
agus_native_on_size_changed(w, h) ==
  /\ pc[Platform] = "idle" /\ WithinCreates(d3d.createCalls, wgl, w, h)
  /\ native.g_wglFactory
  /\ arg' = [arg EXCEPT ![Platform] = <<w, h>>]
  /\ Goto(Platform, "ss_lock")
  /\ UNCHANGED <<wgl, gl, d3d, current, prevContext, hist, notResize, texPixels>>

\* AgusWglContext::Resize(w, h) on the render thread (FrontendRenderer::OnResize):
\* delegates to m_factory->SetSurfaceSize(w, h).
Resize(w, h) ==
  /\ pc[Render] = "idle" /\ WithinCreates(d3d.createCalls, wgl, w, h)
  /\ arg' = [arg EXCEPT ![Render] = <<w, h>>]
  /\ Goto(Render, "ss_lock")
  /\ UNCHANGED <<wgl, gl, d3d, current, prevContext, hist, notResize, texPixels>>

\* The lock_guard is not taken: the body is entered whoever holds m_mutex.
SS_Lock_NoMutex(t) ==
  /\ pc[t] = "ss_lock"
  /\ IF wgl.m_width = arg[t][1] /\ wgl.m_height = arg[t][2]
     THEN Goto(t, "idle")
     ELSE Goto(t, "ss_makecurrent")
  /\ UNCHANGED <<wgl, gl, d3d, current, arg, prevContext, hist, notResize, texPixels>>

\* The same-size early return is missing: every call reallocates.
SS_Lock_NoSameSizeReturn(t) ==
  /\ pc[t] = "ss_lock" /\ wgl.m_mutex = "free"
  /\ Goto(t, "ss_makecurrent") /\ wgl' = [wgl EXCEPT !.m_mutex = t]
  /\ UNCHANGED <<gl, d3d, current, arg, prevContext, hist, notResize, texPixels>>

\* std::lock_guard lock(m_mutex); if (m_width == width && m_height == height) return;
SS_Lock(t) ==
  /\ pc[t] = "ss_lock" /\ wgl.m_mutex = "free"
  /\ IF wgl.m_width = arg[t][1] /\ wgl.m_height = arg[t][2]
     THEN Goto(t, "idle") /\ UNCHANGED wgl
     ELSE Goto(t, "ss_makecurrent") /\ wgl' = [wgl EXCEPT !.m_mutex = t]
  /\ UNCHANGED <<gl, d3d, current, arg, prevContext, hist, notResize, texPixels>>

\* The new size is stored although the draw context could not be made current.
SS_MakeCurrent_FailureStoresSize(t) ==
  /\ pc[t] = "ss_makecurrent"
  /\ prevContext' = [prevContext EXCEPT ![t] = current[t]]
  /\ IF DrawContextFree(t)
     THEN /\ current' = [current EXCEPT ![t] = "draw"]
          /\ Goto(t, "ss_gl")
          /\ UNCHANGED wgl
     ELSE /\ UNCHANGED current
          /\ Goto(t, "idle")
          /\ wgl' = [wgl EXCEPT !.m_mutex = "free",
                                !.m_width = arg[t][1], !.m_height = arg[t][2]]
  /\ UNCHANGED <<gl, d3d, arg, hist, notResize, texPixels>>

\* The current context is not saved before the draw context is made current.
SS_MakeCurrent_NoSave(t) ==
  /\ pc[t] = "ss_makecurrent"
  /\ IF DrawContextFree(t)
     THEN /\ current' = [current EXCEPT ![t] = "draw"]
          /\ Goto(t, "ss_gl")
          /\ UNCHANGED wgl
     ELSE /\ UNCHANGED current
          /\ Goto(t, "idle")
          /\ wgl' = [wgl EXCEPT !.m_mutex = "free"]
  /\ UNCHANGED <<gl, d3d, arg, prevContext, hist, notResize, texPixels>>

\* prevContext = wglGetCurrentContext(); if (!wglMakeCurrent(m_hdc, m_drawGlrc)) return;
SS_MakeCurrent(t) ==
  /\ pc[t] = "ss_makecurrent"
  /\ prevContext' = [prevContext EXCEPT ![t] = current[t]]
  /\ IF DrawContextFree(t)
     THEN /\ current' = [current EXCEPT ![t] = "draw"]
          /\ Goto(t, "ss_gl")
          /\ UNCHANGED wgl
     ELSE /\ UNCHANGED current
          /\ Goto(t, "idle")
          /\ wgl' = [wgl EXCEPT !.m_mutex = "free"]
  /\ UNCHANGED <<gl, d3d, arg, hist, notResize, texPixels>>

\* glViewport and glScissor are not called: the rectangles of the old size stay.
SS_ResizeGL_StaleViewport(t) ==
  /\ pc[t] = "ss_gl"
  /\ \E complete \in BOOLEAN :
       gl' = [gl EXCEPT !.storage = [w |-> arg[t][1], h |-> arg[t][2],
                                     gen |-> gl.storage.gen + 1],
                        !.fboComplete = complete]
  /\ binding' = [binding EXCEPT !.bound = 0]
  /\ current' = [current EXCEPT ![t] = prevContext[t]]
  /\ Goto(t, "ss_width")
  /\ UNCHANGED <<wgl, d3d, arg, prevContext, hist, notResizeGL, texPixels>>

\* glTexImage2D, glRenderbufferStorage, re-attachment, glDrawBuffers,
\* glCheckFramebufferStatus (logged only), glViewport, glScissor,
\* glBindFramebuffer(GL_FRAMEBUFFER, 0); then
\* if (prevContext != nullptr) wglMakeCurrent(prevDC, prevContext);
\* else wglMakeCurrent(nullptr, nullptr);
SS_ResizeGL(t) ==
  /\ pc[t] = "ss_gl"
  /\ \E complete \in BOOLEAN :
       gl' = [storage |-> [w |-> arg[t][1], h |-> arg[t][2], gen |-> gl.storage.gen + 1],
              fboComplete |-> complete,
              viewport |-> <<0, 0, arg[t][1], arg[t][2]>>,
              scissor |-> <<0, 0, arg[t][1], arg[t][2]>>]
  /\ binding' = [binding EXCEPT !.bound = 0]
  /\ current' = [current EXCEPT ![t] = prevContext[t]]
  /\ Goto(t, "ss_width")
  /\ UNCHANGED <<wgl, d3d, arg, prevContext, hist, notResizeGL, texPixels>>

\* m_width = width;
SS_SetWidth(t) ==
  /\ pc[t] = "ss_width"
  /\ wgl' = [wgl EXCEPT !.m_width = arg[t][1]]
  /\ Goto(t, "ss_height")
  /\ UNCHANGED <<gl, d3d, current, arg, prevContext, hist, notResize, texPixels>>

\* m_height = height; CreateSharedTexture(width, height) is entered next.
SS_SetHeight(t) ==
  /\ pc[t] = "ss_height"
  /\ wgl' = [wgl EXCEPT !.m_height = arg[t][2]]
  /\ Goto(t, "cst_close")
  /\ UNCHANGED <<gl, d3d, current, arg, prevContext, hist, notResize, texPixels>>

\* ------------------------------------- CreateSharedTexture (WGL factory) ----
\* return from CreateSharedTexture, the last statement of SetSurfaceSize: the
\* lock_guard releases m_mutex.
ReturnFromResize(t, w) ==
  /\ Goto(t, "idle")
  /\ wgl' = [w EXCEPT !.m_mutex = "free"]

\* if (m_sharedHandle) { CloseHandle(m_sharedHandle); ...
CST_CloseHandle(t) ==
  /\ pc[t] = "cst_close"
  /\ IF wgl.m_sharedHandle # Null
     THEN /\ d3d' = [d3d EXCEPT !.createCalls = @ + 1,
                                !.closedHandles = @ \cup {wgl.m_sharedHandle}]
          /\ Goto(t, "cst_nullhandle")
     ELSE /\ d3d' = [d3d EXCEPT !.createCalls = @ + 1]
          /\ Goto(t, "cst_resetshared")
  /\ UNCHANGED <<wgl, gl, current, arg, prevContext, hist, notResize, texPixels>>

\* ... m_sharedHandle = nullptr; }
CST_NullHandle(t) ==
  /\ pc[t] = "cst_nullhandle"
  /\ wgl' = [wgl EXCEPT !.m_sharedHandle = Null]
  /\ Goto(t, "cst_resetshared")
  /\ UNCHANGED <<gl, d3d, current, arg, prevContext, hist, notResize, texPixels>>

\* m_sharedTexture.Reset();
CST_ResetShared(t) ==
  /\ pc[t] = "cst_resetshared"
  /\ d3d' = [d3d EXCEPT !.releasedTextures = @ \cup ({IdOf(wgl.m_sharedTexture)} \ {Null})]
  /\ wgl' = [wgl EXCEPT !.m_sharedTexture = NoTexture]
  /\ Goto(t, "cst_resetstaging")
  /\ sharedPixels' = <<>>
  /\ UNCHANGED <<gl, current, arg, prevContext, hist, notResize, stagingPixels>>

\* The staging texture is kept when the shared texture is recreated.
CST_ResetStaging_Keeps(t) ==
  /\ pc[t] = "cst_resetstaging"
  /\ Goto(t, "cst_createshared")
  /\ UNCHANGED <<wgl, gl, d3d, current, arg, prevContext, hist, notResize, texPixels>>

\* m_stagingTexture.Reset();
CST_ResetStaging(t) ==
  /\ pc[t] = "cst_resetstaging"
  /\ d3d' = [d3d EXCEPT !.releasedStaging = @ \cup ({IdOf(wgl.m_stagingTexture)} \ {Null})]
  /\ wgl' = [wgl EXCEPT !.m_stagingTexture = NoTexture]
  /\ Goto(t, "cst_createshared")
  /\ stagingPixels' = <<>>
  /\ UNCHANGED <<gl, current, arg, prevContext, hist, notResize, sharedPixels>>

\* hr = m_d3dDevice->CreateTexture2D(&sharedDesc, nullptr, &m_sharedTexture);
\* if (FAILED(hr)) return false;
\* hr = m_sharedTexture.As(&dxgiResource); if (FAILED(hr)) return false;
CST_CreateShared(t) ==
  /\ pc[t] = "cst_createshared"
  /\ \E outcome \in {"ok", "create_failed", "as_failed"} :
       /\ IF outcome = "create_failed"
          THEN UNCHANGED sharedPixels /\ ReturnFromResize(t, wgl)
          ELSE /\ sharedPixels' = UndefImage(arg[t][1], arg[t][2])
               /\ LET made == [wgl EXCEPT !.m_sharedTexture =
                                  Tex(d3d.createCalls, arg[t][1], arg[t][2])]
                  IN  IF outcome = "ok"
                      THEN wgl' = made /\ Goto(t, "cst_gethandle")
                      ELSE ReturnFromResize(t, made)
  /\ UNCHANGED <<gl, d3d, current, arg, prevContext, hist, notResize, stagingPixels>>

\* hr = dxgiResource->GetSharedHandle(&m_sharedHandle); if (FAILED(hr)) return false;
CST_GetSharedHandle(t) ==
  /\ pc[t] = "cst_gethandle"
  /\ \E ok \in BOOLEAN :
       IF ok
       THEN /\ wgl' = [wgl EXCEPT !.m_sharedHandle = d3d.createCalls]
            /\ Goto(t, "cst_createstaging")
       ELSE ReturnFromResize(t, wgl)
  /\ UNCHANGED <<gl, d3d, current, arg, prevContext, hist, notResize, texPixels>>

\* hr = m_d3dDevice->CreateTexture2D(&stagingDesc, nullptr, &m_stagingTexture);
\* if (FAILED(hr)) return false;
CST_CreateStaging(t) ==
  /\ pc[t] = "cst_createstaging"
  /\ \E ok \in BOOLEAN :
       IF ok
       THEN /\ wgl' = [wgl EXCEPT !.m_stagingTexture =
                              Tex(d3d.createCalls, arg[t][1], arg[t][2])]
            /\ stagingPixels' = UndefImage(arg[t][1], arg[t][2])
            /\ Goto(t, "cst_dims")
       ELSE ReturnFromResize(t, wgl) /\ UNCHANGED stagingPixels
  /\ UNCHANGED <<gl, d3d, current, arg, prevContext, hist, notResize, sharedPixels>>

\* m_width = width; m_height = height; return true;
CST_SetDims(t) ==
  /\ pc[t] = "cst_dims"
  /\ ReturnFromResize(t, [wgl EXCEPT !.m_width = arg[t][1], !.m_height = arg[t][2]])
  /\ d3d' = [d3d EXCEPT !.completed = @ \cup {d3d.createCalls}]
  /\ UNCHANGED <<gl, current, arg, prevContext, hist, notResize, texPixels>>

SetSurfaceSizeStep(t) ==
  \/ SS_Lock(t) \/ SS_MakeCurrent(t) \/ SS_ResizeGL(t)
  \/ SS_SetWidth(t) \/ SS_SetHeight(t)
  \/ CST_CloseHandle(t) \/ CST_NullHandle(t) \/ CST_ResetShared(t)
  \/ CST_ResetStaging(t) \/ CST_CreateShared(t)
  \/ CST_GetSharedHandle(t) \/ CST_CreateStaging(t) \/ CST_SetDims(t)

\* ---------------------------------- CopyToSharedTexture (frame transfer) ----
\* The size of the viewport is used as it is when it is positive.
ReadSize_NoClamp(vp, W, H) ==
  LET rw0 == vp[3]
      rh0 == vp[4]
  IN  <<IF rw0 <= 0 \/ rh0 <= 0 THEN W ELSE rw0,
        IF rw0 <= 0 \/ rh0 <= 0 THEN H ELSE rh0>>

\* readWidth / readHeight from the queried viewport: the target size when the
\* viewport is not positive, and never more than the target size.
ReadSize(vp, W, H) ==
  LET rw0 == vp[3]
      rh0 == vp[4]
      rw1 == IF rw0 <= 0 \/ rh0 <= 0 THEN W ELSE rw0
      rh1 == IF rw0 <= 0 \/ rh0 <= 0 THEN H ELSE rh0
  IN  <<IF rw1 > W THEN W ELSE rw1, IF rh1 > H THEN H ELSE rh1>>

\* glReadPixels(0, 0, ...): the lower left corner of the rectangle read.
ReadOrigin == <<0, 0>>

\* glReadPixels(0, 0, readWidth, readHeight, GL_RGBA, ...): rows bottom-up,
\* pixel (x, y) at index y * readWidth + x of the buffer.
ReadPixels(image, rw, rh) ==
  [i \in 1..(rw * rh) |-> image[<<(i - 1) % rw, (i - 1) \div rw>>]]

\* The channels are copied in source order (no red/blue exchange).
SwizzleNone(src) == <<src[1], src[2], src[3], src[4]>>

\* dstRow[x*4+0] = srcRow[x*4+2]; [1] = [1]; [2] = [0]; [3] = [3]  (RGBA -> BGRA)
Swizzle(src) == <<src[3], src[2], src[1], src[4]>>

\* The rows are copied without the Y flip.
SrcRowNoFlip(y, rh) == y

\* int srcY = readHeight - 1 - y;
SrcRow(y, rh) == rh - 1 - y

\* The clear of the partial path leaves alpha at 0.
ClearPixelTransparent == <<0, 0, 0, 0>>

\* memset(dstRow, 0, m_width * 4); dstRow[x * 4 + 3] = 255;
ClearPixel == <<0, 0, 0, 255>>

\* The two copy loops over the mapped staging memory 'dst' (row y, column x).
ConvertFrame(buf, rw, rh, W, H, dst) ==
  IF rw = W /\ rh = H
  THEN [y \in DOMAIN dst |-> [x \in DOMAIN dst[y] |->
          IF y < H /\ x < W THEN Swizzle(buf[SrcRow(y, H) * W + x + 1])
          ELSE dst[y][x]]]
  ELSE [y \in DOMAIN dst |-> [x \in DOMAIN dst[y] |->
          IF y < rh /\ y < H /\ x < rw /\ x < W
          THEN Swizzle(buf[SrcRow(y, rh) * rw + x + 1])
          ELSE IF y < H /\ x < W THEN ClearPixel ELSE dst[y][x]]]

\* The pixels of the buffer 'pixels' the two copy loops read (srcRow + x),
\* counted from 0.
PixelIndices(rw, rh, W, H) ==
  IF rw = W /\ rh = H
  THEN {SrcRow(y, H) * W + x : y \in 0..(H - 1), x \in 0..(W - 1)}
  ELSE {SrcRow(y, rh) * rw + x : y \in 0..(Min(rh, H) - 1), x \in 0..(Min(rw, W) - 1)}

\* The pixels of the mapped memory the loops write (row y, column x): the
\* fast path and the clear loop of the partial path go over every y below
\* m_height and x below m_width.
StagingCells(rw, rh, W, H) == (0..(H - 1)) \X (0..(W - 1))

\* What no step of Present touches.
notPresent == <<gl, arg, prevContext, fb, rd, lifeVars, vk>>

PresentBody == {"copy_gl", "copy_map", "copy_write", "copy_unmap", "copy_resource",
                "copy_flush"}

\* AgusWglContext::Present on the draw context: m_factory->OnFrameReady().
Present ==
  /\ pc[Render] = "idle" /\ hist.presents < MaxPresents
  /\ native.rendering
  /\ hist' = [hist EXCEPT !.presents = @ + 1]
  /\ Goto(Render, "copy_lock")
  /\ UNCHANGED <<wgl, d3d, current, m_initialFrameCount, xfer, pixels, texPixels,
                 clock, notifyVars, notPresent>>

\* AgusWglContext::Present on the upload context: m_isDraw is false.
PresentUpload ==
  /\ hist.uploadPresents < MaxUploadPresents
  /\ hist' = [hist EXCEPT !.uploadPresents = @ + 1]
  /\ UNCHANGED <<wgl, d3d, current, m_initialFrameCount, pc, xfer, pixels, texPixels,
                 clock, notifyVars, notPresent>>

\* How locking m_mutex can end: the lock is taken; on a factory that was
\* deleted under the renderer the mutex is freed memory, and the call may
\* also never return.
LockOutcomes(n) == IF n.dangling THEN {"locked", "blocked"} ELSE {"locked"}

\* The textures are not tested: the transfer goes on without them.
COPY_Lock_NoNullTest ==
  /\ pc[Render] = "copy_lock"
  /\ wgl.m_mutex = "free"
  /\ Goto(Render, "copy_gl") /\ wgl' = [wgl EXCEPT !.m_mutex = Render]
  /\ UNCHANGED <<d3d, current, m_initialFrameCount, xfer, pixels, texPixels,
                 clock, notifyVars, hist, notPresent>>

\* std::lock_guard lock(m_mutex); if (!m_stagingTexture || !m_sharedTexture) return;
COPY_Lock ==
  /\ pc[Render] = "copy_lock"
  /\ \E outcome \in LockOutcomes(native) :
       IF outcome = "blocked"
       THEN Goto(Render, "blocked") /\ UNCHANGED wgl
       ELSE /\ wgl.m_mutex = "free"
            /\ IF wgl.m_stagingTexture = NoTexture \/ wgl.m_sharedTexture = NoTexture
               THEN Goto(Render, "frame_cb") /\ UNCHANGED wgl
               ELSE Goto(Render, "copy_gl") /\ wgl' = [wgl EXCEPT !.m_mutex = Render]
  /\ UNCHANGED <<d3d, current, m_initialFrameCount, xfer, pixels, texPixels,
                 clock, notifyVars, hist, notPresent>>

\* GLuint fboToRead = m_lastBoundFramebuffer.load();
\* if (fboToRead == 0) fboToRead = m_framebuffer;
FboToRead(last) == IF last = 0 THEN OwnFbo ELSE last

\* Make the draw context current if it is not, bind fboToRead, query
\* GL_VIEWPORT, clamp,
\* glFinish, store m_renderedWidth/Height, glReadPixels,
\* glBindFramebuffer(GL_FRAMEBUFFER, 0), restore the context.
\* (With the draw context current elsewhere wglMakeCurrent fails unchecked and
\* the viewport array is read uninitialised.)
COPY_ReadGL ==
  /\ pc[Render] = "copy_gl"
  /\ \E vp \in IF current[Render] = "draw" \/ DrawContextFree(Render)
               THEN {gl.viewport}
               ELSE {<<0, 0, w, h>> : w \in 0..MaxDim, h \in 0..MaxDim} :
       LET rs == ReadSize(vp, wgl.m_width, wgl.m_height) IN
         /\ xfer' = [xfer EXCEPT !.readWidth = rs[1], !.readHeight = rs[2]]
         /\ wgl' = [wgl EXCEPT !.m_renderedWidth = rs[1], !.m_renderedHeight = rs[2]]
         /\ pixels' = ReadPixels(fb, rs[1], rs[2])
  /\ binding' = [binding EXCEPT
                   !.fboToRead = FboToRead(binding.m_lastBoundFramebuffer),
                   !.bound = IF current[Render] = "draw" \/ DrawContextFree(Render)
                             THEN 0 ELSE @]
  /\ Goto(Render, "copy_map")
  /\ UNCHANGED <<d3d, current, m_initialFrameCount, texPixels,
                 clock, notifyVars, hist, gl, arg, prevContext, fb, rd, native,
                 plugin, sample, rel, query, vk>>

\* On a failed Map the function returns with m_mutex still locked.
COPY_Map_KeepsLock ==
  /\ pc[Render] = "copy_map"
  /\ \E ok \in BOOLEAN :
       IF ok
       THEN /\ d3d' = [d3d EXCEPT !.mapped = IdOf(wgl.m_stagingTexture)]
            /\ xfer' = [xfer EXCEPT !.staging = IdOf(wgl.m_stagingTexture),
                                    !.shared = IdOf(wgl.m_sharedTexture)]
            /\ Goto(Render, "copy_write")
            /\ UNCHANGED wgl
       ELSE /\ Goto(Render, "frame_cb")
            /\ UNCHANGED <<wgl, d3d, xfer>>
  /\ UNCHANGED <<current, m_initialFrameCount, pixels, texPixels,
                 clock, notifyVars, hist, notPresent>>

\* hr = m_d3dContext->Map(m_stagingTexture.Get(), 0, D3D11_MAP_WRITE, 0, &mapped);
\* on failure the frame is dropped (logged) and the function returns.
COPY_Map ==
  /\ pc[Render] = "copy_map"
  /\ \E ok \in BOOLEAN :
       IF ok
       THEN /\ d3d' = [d3d EXCEPT !.mapped = IdOf(wgl.m_stagingTexture)]
            /\ xfer' = [xfer EXCEPT !.staging = IdOf(wgl.m_stagingTexture),
                                    !.shared = IdOf(wgl.m_sharedTexture)]
            /\ Goto(Render, "copy_write")
            /\ UNCHANGED wgl
       ELSE /\ wgl' = [wgl EXCEPT !.m_mutex = "free"]
            /\ Goto(Render, "frame_cb")
            /\ UNCHANGED <<d3d, xfer>>
  /\ UNCHANGED <<current, m_initialFrameCount, pixels, texPixels,
                 clock, notifyVars, hist, notPresent>>

\* The fast path or the partial path, into the mapped staging memory.
COPY_Write ==
  /\ pc[Render] = "copy_write"
  /\ stagingPixels' = ConvertFrame(pixels, xfer.readWidth, xfer.readHeight,
                                   wgl.m_width, wgl.m_height, stagingPixels)
  /\ Goto(Render, "copy_unmap")
  /\ UNCHANGED <<wgl, d3d, current, m_initialFrameCount, xfer, pixels, sharedPixels,
                 clock, notifyVars, hist, notPresent>>

\* m_d3dContext->Unmap(m_stagingTexture.Get(), 0);
COPY_Unmap ==
  /\ pc[Render] = "copy_unmap"
  /\ d3d' = [d3d EXCEPT !.mapped = Null]
  /\ Goto(Render, "copy_resource")
  /\ UNCHANGED <<wgl, current, m_initialFrameCount, xfer, pixels, texPixels,
                 clock, notifyVars, hist, notPresent>>

\* m_d3dContext->CopyResource(m_sharedTexture.Get(), m_stagingTexture.Get());
COPY_CopyResource ==
  /\ pc[Render] = "copy_resource"
  /\ sharedPixels' = stagingPixels
  /\ Goto(Render, "copy_flush")
  /\ UNCHANGED <<wgl, d3d, current, m_initialFrameCount, xfer, pixels, stagingPixels,
                 clock, notifyVars, hist, notPresent>>

\* m_d3dContext->Flush(); the function returns and releases m_mutex.
COPY_Flush ==
  /\ pc[Render] = "copy_flush"
  /\ d3d' = [d3d EXCEPT !.flushedInto = IdOf(wgl.m_sharedTexture)]
  /\ wgl' = [wgl EXCEPT !.m_mutex = "free"]
  /\ xfer' = [xfer EXCEPT !.flushed = TRUE]
  /\ Goto(Render, "frame_cb")
  /\ UNCHANGED <<current, m_initialFrameCount, pixels, texPixels,
                 clock, notifyVars, hist, notPresent>>

\* OnFrameReady: if (m_frameCallback) m_frameCallback();  (notifyFlutterFrameReady)
FrameCallback ==
  /\ pc[Render] = "frame_cb"
  /\ IF wgl.m_frameCallback THEN Goto(Render, "n_now") ELSE Goto(Render, "keepalive")
  /\ UNCHANGED <<wgl, d3d, current, m_initialFrameCount, xfer, pixels, texPixels,
                 clock, notifyVars, hist, notPresent>>

\* The countdown is not tested: the keep-alive is requested on every Present.
KeepAlive_NoCountdown ==
  /\ pc[Render] = "keepalive"
  /\ hist' = [hist EXCEPT !.keepAliveCalls = @ + 1]
  /\ xfer' = [xfer EXCEPT !.flushed = FALSE]
  /\ Goto(Render, "idle")
  /\ UNCHANGED <<wgl, d3d, current, m_initialFrameCount, pixels, texPixels,
                 clock, notifyVars, notPresent>>

\* if (m_initialFrameCount > 0) { m_initialFrameCount--; m_factory->RequestActiveFrame(); }
\* RequestActiveFrame: if (m_keepAliveCallback) m_keepAliveCallback();
KeepAlive ==
  /\ pc[Render] = "keepalive"
  /\ IF m_initialFrameCount > 0
     THEN /\ m_initialFrameCount' = m_initialFrameCount - 1
          /\ hist' = [hist EXCEPT !.keepAliveCalls =
                        IF wgl.m_keepAliveCallback THEN @ + 1 ELSE @]
     ELSE UNCHANGED <<m_initialFrameCount, hist>>
  /\ xfer' = [xfer EXCEPT !.flushed = FALSE]
  /\ Goto(Render, "idle")
  /\ UNCHANGED <<wgl, d3d, current, pixels, texPixels,
                 clock, notifyVars, notPresent>>

\* ------------------------------------------- notifyFlutterFrameReady ----
Notifiers == {Render, Engine}

\* Where notifyFlutterFrameReady returns to: Present continues with the
\* keep-alive countdown; the engine's callback is done.
AfterNotify(t) == IF t = Render THEN "keepalive" ELSE "idle"

notNotify == <<wgl, gl, d3d, current, m_initialFrameCount, arg, prevContext, xfer,
               pixelVars, clock, rd, native, sample, rel, query,
               binding, vk>>

\* The renderer's active-frame callback (df::SetActiveFrameCallback) or
\* agus_notify_frame_ready, on a thread other than the one inside Present.
ActiveFrameCallback ==
  /\ pc[Engine] = "idle" /\ hist.engineCalls < MaxEngineCalls
  /\ hist' = [hist EXCEPT !.engineCalls = @ + 1]
  /\ Goto(Engine, "n_now")
  /\ UNCHANGED <<notifyVars, plugin, notNotify>>

\* auto now = std::chrono::steady_clock::now();
N_Now(t) ==
  /\ pc[t] = "n_now"
  /\ now' = [now EXCEPT ![t] = clock]
  /\ Goto(t, "n_elapsed")
  /\ UNCHANGED <<g_lastFrameNotification, g_frameNotificationPending,
                 g_frameReadyCallback, dispatchLog, pendingOwner, hist, plugin, notNotify>>

\* The time stamp is also stored by a trigger that is suppressed.
N_Elapsed_StampsSuppressed(t) ==
  /\ pc[t] = "n_elapsed"
  /\ IF now[t] - g_lastFrameNotification < kMinFrameInterval
     THEN Goto(t, AfterNotify(t)) /\ g_lastFrameNotification' = now[t]
     ELSE Goto(t, "n_cas") /\ UNCHANGED g_lastFrameNotification
  /\ UNCHANGED <<g_frameNotificationPending, g_frameReadyCallback, now, dispatchLog,
                 pendingOwner, hist, plugin, notNotify>>

\* auto elapsed = now - g_lastFrameNotification; if (elapsed < kMinFrameInterval) return;
N_Elapsed(t) ==
  /\ pc[t] = "n_elapsed"
  /\ IF now[t] - g_lastFrameNotification < kMinFrameInterval
     THEN Goto(t, AfterNotify(t))
     ELSE Goto(t, "n_cas")
  /\ UNCHANGED <<notifyVars, hist, plugin, notNotify>>

\* The pending flag is set without being tested.
N_CompareExchange_NoTest(t) ==
  /\ pc[t] = "n_cas"
  /\ g_frameNotificationPending' = TRUE /\ pendingOwner' = t
  /\ Goto(t, "n_stamp")
  /\ UNCHANGED <<g_lastFrameNotification, g_frameReadyCallback, now, dispatchLog,
                 hist, plugin, notNotify>>

\* bool expected = false;
\* if (!g_frameNotificationPending.compare_exchange_strong(expected, true)) return;
N_CompareExchange(t) ==
  /\ pc[t] = "n_cas"
  /\ IF g_frameNotificationPending = FALSE
     THEN /\ g_frameNotificationPending' = TRUE /\ pendingOwner' = t
          /\ Goto(t, "n_stamp")
     ELSE /\ UNCHANGED <<g_frameNotificationPending, pendingOwner>>
          /\ Goto(t, AfterNotify(t))
  /\ UNCHANGED <<g_lastFrameNotification, g_frameReadyCallback, now, dispatchLog,
                 hist, plugin, notNotify>>

\* g_lastFrameNotification = now;
N_Stamp(t) ==
  /\ pc[t] = "n_stamp"
  /\ g_lastFrameNotification' = now[t]
  /\ Goto(t, "n_call")
  /\ UNCHANGED <<g_frameNotificationPending, g_frameReadyCallback, now, dispatchLog,
                 pendingOwner, hist, plugin, notNotify>>

\* AgusMapsFlutterPlugin::OnFrameReady, reached through OnNativeFrameReady:
\* if (g_pluginInstance) ...; if (texture_id_ >= 0 && texture_registrar_)
\* texture_registrar_->MarkTextureFrameAvailable(texture_id_);
OnNativeFrameReady(p) ==
  IF p.g_pluginInstance /\ p.texture_id_ >= 0
  THEN [p EXCEPT !.marks = @ \cup {[id |-> p.texture_id_,
                                    registered |-> p.texture_id_ \in p.registered,
                                    released |-> ~native.g_threadSafeFactory]}]
  ELSE p

\* if (g_frameReadyCallback) g_frameReadyCallback();
N_Call(t) ==
  /\ pc[t] = "n_call"
  /\ dispatchLog' = IF g_frameReadyCallback
                    THEN Append(dispatchLog, [by |-> t, now |-> now[t]])
                    ELSE dispatchLog
  /\ plugin' = IF g_frameReadyCallback THEN OnNativeFrameReady(plugin) ELSE plugin
  /\ Goto(t, "n_clear")
  /\ UNCHANGED <<g_lastFrameNotification, g_frameNotificationPending,
                 g_frameReadyCallback, now, pendingOwner, hist, notNotify>>

\* g_frameNotificationPending.store(false);
N_Clear(t) ==
  /\ pc[t] = "n_clear"
  /\ g_frameNotificationPending' = FALSE /\ pendingOwner' = "none"
  /\ Goto(t, AfterNotify(t))
  /\ UNCHANGED <<g_lastFrameNotification, g_frameReadyCallback, now, dispatchLog,
                 hist, plugin, notNotify>>

NotifyStep(t) ==
  \/ N_Now(t) \/ N_Elapsed(t) \/ N_CompareExchange(t) \/ N_Stamp(t)
  \/ N_Call(t) \/ N_Clear(t)

\* agus_set_frame_ready_callback(callback): g_frameReadyCallback = callback;
agus_set_frame_ready_callback(cb) ==
  /\ g_frameReadyCallback # cb
  /\ g_frameReadyCallback' = cb
  /\ UNCHANGED <<g_lastFrameNotification, g_frameNotificationPending, now,
                 dispatchLog, pendingOwner, pc, hist, plugin, notNotify>>

\* Time passes.
Tick ==
  /\ hist.ticks < MaxTicks
  /\ clock' = clock + TickMs
  /\ hist' = [hist EXCEPT !.ticks = @ + 1]
  /\ UNCHANGED <<wgl, gl, d3d, current, m_initialFrameCount, pc, arg, prevContext,
                 xfer, pixelVars, notifyVars, rd, lifeVars, vk>>

\* ------------------------------------------------ draw context (GL) ----
notGL == <<wgl, d3d, m_initialFrameCount, pc, arg, prevContext, xfer, pixelVars,
           clock, notifyVars, rd, hist, lifeVars, vk>>

notGLBinding == <<wgl, d3d, m_initialFrameCount, pc, arg, prevContext, xfer,
                  pixelVars, clock, notifyVars, rd, hist, native, plugin, sample,
                  rel, query, vk>>

\* AgusWglContext::MakeCurrent on the draw context (render thread):
\* wglMakeCurrent, then glBindFramebuffer(GL_FRAMEBUFFER, m_framebuffer).
MakeCurrent ==
  /\ pc[Render] = "idle"
  /\ current' = IF DrawContextFree(Render)
                THEN [current EXCEPT ![Render] = "draw"]
                ELSE current
  /\ binding' = IF current'[Render] = "draw"
                THEN [binding EXCEPT !.bound = OwnFbo]
                ELSE binding
  /\ UNCHANGED <<gl, notGLBinding>>

\* AgusWglContext::DoneCurrent: glBindFramebuffer(GL_FRAMEBUFFER, 0), then
\* wglMakeCurrent(nullptr, nullptr).
DoneCurrent ==
  /\ pc[Render] = "idle"
  /\ binding' = IF current[Render] = "draw"
                THEN [binding EXCEPT !.bound = 0]
                ELSE binding
  /\ current' = [current EXCEPT ![Render] = "none"]
  /\ UNCHANGED <<gl, notGLBinding>>

\* AgusWglContext::SetViewport: glViewport and glScissor with the same rectangle.
SetViewport(x, y, w, h) ==
  /\ pc[Render] = "idle" /\ current[Render] = "draw"
  /\ gl' = [gl EXCEPT !.viewport = <<x, y, w, h>>, !.scissor = <<x, y, w, h>>]
  /\ UNCHANGED <<current, notGL>>

\* ----------------------------- compositor thread: the plain accessors ----
notReader == <<wgl, gl, d3d, current, m_initialFrameCount, pc, arg, prevContext,
               xfer, pixelVars, clock, notifyVars, lifeVars, vk>>

\* GetSharedTextureHandle() const { return m_sharedHandle; }
R_GetSharedTextureHandle ==
  /\ rd.pc = "idle"
  /\ rd' = [rd EXCEPT !.pc = "texture", !.handle = wgl.m_sharedHandle,
                      !.closedAtRead = wgl.m_sharedHandle \in d3d.closedHandles]
  /\ UNCHANGED <<hist, notReader>>

\* GetD3D11Texture() const { return m_sharedTexture.Get(); }
R_GetD3D11Texture ==
  /\ rd.pc = "texture"
  /\ rd' = [rd EXCEPT !.pc = "width", !.texture = wgl.m_sharedTexture]
  /\ UNCHANGED <<hist, notReader>>

\* GetWidth() const { return m_width; }
R_GetWidth ==
  /\ rd.pc = "width"
  /\ rd' = [rd EXCEPT !.pc = "height", !.w = wgl.m_width]
  /\ UNCHANGED <<hist, notReader>>

\* GetHeight() const { return m_height; }
R_GetHeight ==
  /\ rd.pc = "height"
  /\ rd' = [rd EXCEPT !.pc = "done", !.h = wgl.m_height]
  /\ UNCHANGED <<hist, notReader>>

\* The compositor is done with the values; the next sample starts over.
R_Done ==
  /\ rd.pc = "done"
  /\ rd' = RdIdle
  /\ UNCHANGED <<hist, notReader>>

\* ------------------------------------------ AgusVulkanContextFactory ----
notVulkan == <<wgl, gl, d3d, current, m_initialFrameCount, pc, arg, prevContext,
               xfer, pixelVars, clock, notifyVars, rd, hist, lifeVars>>

\* CleanupTexture: if (m_sharedHandle) { CloseHandle(m_sharedHandle);
\* m_sharedHandle = nullptr; }  m_d3dTexture.Reset();
CleanupTexture(v) ==
  [v EXCEPT !.closedHandles = @ \cup ({v.m_sharedHandle} \ {Null}),
            !.m_sharedHandle = Null,
            !.releasedTextures = @ \cup ({IdOf(v.m_d3dTexture)} \ {Null}),
            !.m_d3dTexture = NoTexture]

VkOutcomes == {"ok", "create_failed", "as_failed", "handle_failed"}

\* AgusVulkanContextFactory::CreateSharedTexture(width, height): the factory
\* it leaves behind when its D3D11 calls end as 'outcome' says.
VkCreateSharedTexture(v, w, h, outcome) ==
  IF ~v.m_d3dDevice THEN v
  ELSE LET c == [CleanupTexture(v) EXCEPT !.createCalls = @ + 1]
           k == c.createCalls
       IN  CASE outcome = "create_failed" -> c
             [] outcome \in {"as_failed", "handle_failed"} ->
                  [c EXCEPT !.m_d3dTexture = Tex(k, w, h)]
             [] OTHER ->
                  [c EXCEPT !.m_d3dTexture = Tex(k, w, h), !.m_sharedHandle = k,
                            !.m_width = w, !.m_height = h,
                            !.completed = @ \cup {k}]

\* AgusVulkanContextFactory::IsValid: IsVulkanSupported() && m_d3dInitialized
\* && m_d3dTexture != nullptr. The factory came out of a constructor in which
\* Vulkan was supported; m_d3dInitialized is set with m_d3dDevice.
IsValid(v) == v.m_d3dDevice /\ v.m_d3dTexture # NoTexture

\* A caller enters UpdateSurfaceSize(width, height).
VK_Call(w, h) ==
  /\ vk.pc = "idle" /\ WithinCreates(vk.createCalls, vk, w, h)
  /\ vk' = [vk EXCEPT !.pc = "update", !.arg = <<w, h>>]
  /\ UNCHANGED notVulkan

\* if (width == m_width && height == m_height) return;
\* if (!CreateSharedTexture(width, height)) LOG(LERROR, ...);
UpdateSurfaceSize ==
  /\ vk.pc = "update"
  /\ IF vk.arg[1] = vk.m_width /\ vk.arg[2] = vk.m_height
     THEN vk' = [vk EXCEPT !.pc = "idle", !.arg = <<0, 0>>]
     ELSE \E outcome \in VkOutcomes :
            vk' = [VkCreateSharedTexture(vk, vk.arg[1], vk.arg[2], outcome)
                     EXCEPT !.pc = "idle", !.arg = <<0, 0>>]
  /\ UNCHANGED notVulkan

\* ------------------------------ surface lifecycle (native globals, plugin) ----
\* What no lifecycle call touches.
notLife == <<current, prevContext, xfer, fb, pixels, clock, g_lastFrameNotification,
             g_frameNotificationPending, now, dispatchLog, pendingOwner, rd, hist,
             rel, query, binding, vk>>

\* No factory object: every member reads as null.
NoFactory == [m_d3dDevice |-> FALSE, m_width |-> 0, m_height |-> 0,
              m_sharedHandle |-> Null, m_sharedTexture |-> NoTexture,
              m_stagingTexture |-> NoTexture, m_mutex |-> "free",
              m_renderedWidth |-> 0, m_renderedHeight |-> 0,
              m_frameCallback |-> FALSE, m_keepAliveCallback |-> FALSE]

NoFramebuffer == [storage |-> [w |-> 0, h |-> 0, gen |-> 0], fboComplete |-> FALSE,
                  viewport |-> <<0, 0, 0, 0>>, scissor |-> <<0, 0, 0, 0>>]

\* The factory after its constructor succeeded with the k-th texture created,
\* and after agus_native_create_surface set its two callbacks.
NewFactory(w, h, k) ==
  [m_d3dDevice |-> TRUE, m_width |-> w, m_height |-> h, m_sharedHandle |-> k,
   m_sharedTexture |-> Tex(k, w, h), m_stagingTexture |-> Tex(k, w, h),
   m_mutex |-> "free", m_renderedWidth |-> w, m_renderedHeight |-> h,
   m_frameCallback |-> TRUE, m_keepAliveCallback |-> TRUE]

\* The factory after a constructor that returned early: InitializeWGL failed,
\* or InitializeD3D11 failed (CleanupWGL), or CreateSharedTexture failed
\* (CleanupD3D11, CleanupWGL). m_width, m_height and the rendered size are
\* set, every D3D11 member is null; agus_native_create_surface then sets the
\* two callbacks.
FailedFactory(w, h) ==
  [NoFactory EXCEPT !.m_width = w, !.m_height = h,
                    !.m_renderedWidth = w, !.m_renderedHeight = h,
                    !.m_frameCallback = TRUE, !.m_keepAliveCallback = TRUE]

\* How the constructor of the factory can end.
InitOutcomes == {"ok", "wgl_failed", "d3d11_failed", "texture_failed"}

NewFramebuffer(w, h) ==
  [storage |-> [w |-> w, h |-> h, gen |-> 0], fboComplete |-> TRUE,
   viewport |-> <<0, 0, w, h>>, scissor |-> <<0, 0, w, h>>]

\* ~AgusWglContextFactory -> CleanupD3D11: CloseHandle(m_sharedHandle) if it is
\* not null, m_stagingTexture.Reset(), m_sharedTexture.Reset().
CleanupD3D11(d, f) ==
  [d EXCEPT !.closedHandles = @ \cup ({f.m_sharedHandle} \ {Null}),
            !.releasedTextures = @ \cup ({IdOf(f.m_sharedTexture)} \ {Null}),
            !.releasedStaging = @ \cup ({IdOf(f.m_stagingTexture)} \ {Null})]

\* UnregisterTexture(texture_id_) on Flutter's registrar.
UnregisterTexture(p) ==
  [p EXCEPT !.registered = @ \ {p.texture_id_},
            !.doubleUnregister = @ \/ (p.texture_id_ \notin p.registered)]

\* The values the three accessors can return: null without a factory, the
\* member of the live factory, and whatever the freed object holds while
\* g_wglFactory still points to a factory g_threadSafeFactory has deleted.
agus_get_shared_texture_handle ==
  IF ~native.g_wglFactory THEN {Null}
  ELSE IF native.g_threadSafeFactory THEN {wgl.m_sharedHandle}
  ELSE {Null} \cup d3d.closedHandles

agus_get_d3d11_device ==
  IF ~native.g_wglFactory THEN {FALSE}
  ELSE IF native.g_threadSafeFactory THEN {wgl.m_d3dDevice}
  ELSE BOOLEAN

agus_get_d3d11_texture ==
  IF ~native.g_wglFactory THEN {Null}
  ELSE IF native.g_threadSafeFactory THEN {IdOf(wgl.m_sharedTexture)}
  ELSE {Null} \cup d3d.releasedTextures

\* createMapSurface(w, h) on the platform thread: agus_native_create_surface
\* (nothing unless the platform is initialised; else the framework, a new
\* factory whose constructor ends as init and on "ok" has created texture k,
\* its draw context (GetDrawContext creates it and never returns null), the
\* callbacks, g_threadSafeFactory (which deletes the factory it owned), the
\* DrapeEngine and rendering), agus_set_frame_ready_callback, then the
\* plugin's sizes and, with a non-null handle, a new registered texture.
HandleCreateMapSurface(w, h, init) ==
  /\ pc[Platform] = "idle" /\ plugin.g_pluginInstance
  /\ d3d.createCalls < MaxCreates
  /\ LET created == native.g_platformInitialized
         k == d3d.createCalls + 1
         sharedHandle == IF created
                         THEN (IF init = "ok" THEN k ELSE Null)
                         ELSE CHOOSE v \in agus_get_shared_texture_handle : TRUE
     IN  /\ IF created
            THEN /\ native' = [native EXCEPT !.g_wglFactory = TRUE,
                                             !.g_threadSafeFactory = TRUE,
                                             !.g_framework = TRUE,
                                             !.g_drapeEngineCreated = TRUE,
                                             !.activeFrameCallback =
                                                 @ \/ ~native.g_drapeEngineCreated,
                                             !.rendering = TRUE,
                                             !.init = init,
                                             !.surface = "created",
                                             !.dangling =
                                                 native.g_drapeEngineCreated
                                                 /\ (@ \/ native.g_threadSafeFactory)]
                 /\ wgl' = IF init = "ok" THEN NewFactory(w, h, k)
                                          ELSE FailedFactory(w, h)
                 /\ gl' = IF init = "ok" THEN NewFramebuffer(w, h) ELSE NoFramebuffer
                 /\ d3d' = [CleanupD3D11(d3d, wgl) EXCEPT
                              !.createCalls = IF init \in {"ok", "texture_failed"}
                                              THEN k ELSE @,
                              !.completed = IF init = "ok" THEN @ \cup {k} ELSE @]
                 /\ m_initialFrameCount' = InitialFrameBudget
                 /\ stagingPixels' = IF init = "ok" THEN UndefImage(w, h) ELSE <<>>
                 /\ sharedPixels' = IF init = "ok" THEN UndefImage(w, h) ELSE <<>>
            ELSE UNCHANGED <<native, wgl, gl, d3d, m_initialFrameCount, texPixels>>
         /\ plugin' = IF sharedHandle # Null
                      THEN [plugin EXCEPT !.surface_width_ = w, !.surface_height_ = h,
                                          !.texture_ = TRUE,
                                          !.texture_id_ = plugin.nextId,
                                          !.registered = @ \cup {plugin.nextId},
                                          !.nextId = @ + 1]
                      ELSE [plugin EXCEPT !.surface_width_ = w, !.surface_height_ = h]
  /\ g_frameReadyCallback' = TRUE
  /\ UNCHANGED <<pc, arg, sample, notLife>>

\* resizeMapSurface(w, h): surface_width_ = w; surface_height_ = h; then
\* agus_native_on_size_changed(w, h), which resizes only an installed factory.
HandleResizeMapSurface(w, h) ==
  /\ pc[Platform] = "idle" /\ plugin.g_pluginInstance
  /\ WithinCreates(d3d.createCalls, wgl, w, h)
  /\ plugin' = [plugin EXCEPT !.surface_width_ = w, !.surface_height_ = h]
  /\ IF native.g_wglFactory
     THEN arg' = [arg EXCEPT ![Platform] = <<w, h>>] /\ Goto(Platform, "ss_lock")
     ELSE UNCHANGED <<pc, arg>>
  /\ UNCHANGED <<wgl, gl, d3d, m_initialFrameCount, texPixels, g_frameReadyCallback,
                 native, sample, notLife>>

\* destroyMapSurface: UnregisterTexture and texture_id_ = -1 if a texture is
\* registered, texture_.reset(), then agus_native_on_surface_destroyed.
HandleDestroyMapSurface ==
  /\ pc[Platform] = "idle" /\ plugin.g_pluginInstance
  /\ plugin' = IF plugin.texture_id_ >= 0
               THEN [UnregisterTexture(plugin) EXCEPT !.texture_id_ = -1,
                                                      !.texture_ = FALSE]
               ELSE [plugin EXCEPT !.texture_ = FALSE]
  /\ native' = [native EXCEPT !.call = "destroy"]
  /\ Goto(Platform, "osd_disable")
  /\ UNCHANGED <<wgl, gl, d3d, m_initialFrameCount, arg, texPixels,
                 g_frameReadyCallback, sample, notLife>>

\* ~AgusMapsFlutterPlugin: UnregisterTexture if a texture is registered
\* (texture_id_ keeps its value), agus_native_on_surface_destroyed, and at the
\* end g_pluginInstance = nullptr.
PluginDestructor ==
  /\ pc[Platform] = "idle" /\ plugin.g_pluginInstance
  /\ plugin' = IF plugin.texture_id_ >= 0 THEN UnregisterTexture(plugin) ELSE plugin
  /\ native' = [native EXCEPT !.call = "dtor"]
  /\ Goto(Platform, "osd_disable")
  /\ UNCHANGED <<wgl, gl, d3d, m_initialFrameCount, arg, texPixels,
                 g_frameReadyCallback, sample, notLife>>

\* The surface is released without the renderer being disabled first.
agus_native_on_surface_destroyed_NoDisable ==
  /\ pc[Platform] = "idle"
  /\ native' = [native EXCEPT !.call = "ffi"]
  /\ Goto(Platform, "osd_reset")
  /\ UNCHANGED <<wgl, gl, d3d, m_initialFrameCount, arg, texPixels,
                 g_frameReadyCallback, plugin, sample, notLife>>

\* agus_native_on_surface_destroyed called directly.
agus_native_on_surface_destroyed ==
  /\ pc[Platform] = "idle"
  /\ native' = [native EXCEPT !.call = "ffi"]
  /\ Goto(Platform, "osd_disable")
  /\ UNCHANGED <<wgl, gl, d3d, m_initialFrameCount, arg, texPixels,
                 g_frameReadyCallback, plugin, sample, notLife>>

\* comaps_shutdown: lock g_mutex, df::SetActiveFrameCallback(nullptr), then
\* the same three steps, then g_framework.reset() and the flags.
comaps_shutdown ==
  /\ pc[Platform] = "idle" /\ ~native.g_mutex
  /\ native' = [native EXCEPT !.g_mutex = TRUE, !.activeFrameCallback = FALSE,
                              !.call = "shutdown"]
  /\ Goto(Platform, "osd_disable")
  /\ UNCHANGED <<wgl, gl, d3d, m_initialFrameCount, arg, texPixels,
                 g_frameReadyCallback, plugin, sample, notLife>>

\* Framework::SetRenderingDisabled(true): returns when the render thread has
\* left its frame; the renderer then presents no further frame.
SetRenderingDisabled(n) == [n EXCEPT !.rendering = FALSE]
RendererStopped == pc[Render] = "idle"

\* if (g_framework) g_framework->SetRenderingDisabled(true);
OSD_Disable ==
  /\ pc[Platform] = "osd_disable"
  /\ IF native.g_framework
     THEN RendererStopped /\ native' = SetRenderingDisabled(native)
     ELSE UNCHANGED native
  /\ Goto(Platform, "osd_reset")
  /\ UNCHANGED <<wgl, gl, d3d, m_initialFrameCount, arg, texPixels,
                 g_frameReadyCallback, plugin, sample, notLife>>

\* g_threadSafeFactory.reset(): deletes the factory it owns, if any.
OSD_Reset ==
  /\ pc[Platform] = "osd_reset"
  /\ IF native.g_threadSafeFactory
     THEN /\ d3d' = CleanupD3D11(d3d, wgl)
          /\ wgl' = NoFactory /\ gl' = NoFramebuffer
          /\ stagingPixels' = <<>> /\ sharedPixels' = <<>>
          /\ native' = [native EXCEPT !.g_threadSafeFactory = FALSE,
                                      !.init = "none"]
     ELSE UNCHANGED <<d3d, wgl, gl, texPixels, native>>
  /\ Goto(Platform, "osd_null")
  /\ UNCHANGED <<m_initialFrameCount, arg, g_frameReadyCallback, plugin, sample,
                 notLife>>

\* g_wglFactory = nullptr is left out: the pointer keeps the freed factory.
OSD_Null_KeepsPointer ==
  /\ pc[Platform] = "osd_null"
  /\ native' = [native EXCEPT !.g_drapeEngineCreated = FALSE,
                              !.g_framework = @ /\ native.call # "shutdown",
                              !.g_platformInitialized = @ /\ native.call # "shutdown",
                              !.g_mutex = FALSE,
                              !.surface = IF @ = "created" THEN "destroyed" ELSE @,
                              !.call = "none"]
  /\ plugin' = [plugin EXCEPT !.g_pluginInstance = @ /\ native.call # "dtor"]
  /\ Goto(Platform, "idle")
  /\ UNCHANGED <<wgl, gl, d3d, m_initialFrameCount, arg, texPixels,
                 g_frameReadyCallback, sample, notLife>>

\* g_wglFactory = nullptr; g_drapeEngineCreated = false; comaps_shutdown also
\* g_framework.reset(), g_platformInitialized = false and the unlock; the
\* destructor also g_pluginInstance = nullptr.
OSD_Null ==
  /\ pc[Platform] = "osd_null"
  /\ native' = [native EXCEPT !.g_wglFactory = FALSE,
                              !.g_drapeEngineCreated = FALSE,
                              !.g_framework = @ /\ native.call # "shutdown",
                              !.g_platformInitialized = @ /\ native.call # "shutdown",
                              !.g_mutex = FALSE,
                              !.surface = IF @ = "created" THEN "destroyed" ELSE @,
                              !.call = "none"]
  /\ plugin' = [plugin EXCEPT !.g_pluginInstance = @ /\ native.call # "dtor"]
  /\ Goto(Platform, "idle")
  /\ UNCHANGED <<wgl, gl, d3d, m_initialFrameCount, arg, texPixels,
                 g_frameReadyCallback, sample, notLife>>

TeardownStep == OSD_Disable \/ OSD_Reset \/ OSD_Null

\* The sampling callback of the registered texture, on the raster thread:
\* currentHandle = g_fnGetSharedTextureHandle();
S_Query ==
  /\ sample.pc = "idle" /\ plugin.texture_ /\ plugin.texture_id_ \in plugin.registered
  /\ \E h \in agus_get_shared_texture_handle :
       sample' = [sample EXCEPT !.pc = "queried", !.currentHandle = h,
                                !.closedAtRead = h \in d3d.closedHandles,
                                !.textureAtRead = IF native.g_threadSafeFactory
                                                  THEN wgl.m_sharedTexture
                                                  ELSE NoTexture,
                                !.nullAtRead = ~native.g_wglFactory
                                               \/ (native.g_threadSafeFactory
                                                   /\ wgl.m_sharedHandle = Null)]
  /\ UNCHANGED <<wgl, gl, d3d, m_initialFrameCount, pc, arg, texPixels,
                 g_frameReadyCallback, native, plugin, notLife>>

\* The test of the handle is left out: a descriptor is always built.
S_Return_NoNullTest ==
  /\ sample.pc = "queried"
  /\ sample' = [sample EXCEPT !.pc = "returned", !.result = "descriptor",
                  !.desc = [handle |-> sample.currentHandle,
                            width |-> plugin.surface_width_,
                            height |-> plugin.surface_height_,
                            visible_width |-> plugin.surface_width_,
                            visible_height |-> plugin.surface_height_,
                            format |-> "BGRA8888", release_callback |-> FALSE]]
  /\ UNCHANGED <<wgl, gl, d3d, m_initialFrameCount, pc, arg, texPixels,
                 g_frameReadyCallback, native, plugin, notLife>>

\* if (!currentHandle) return nullptr; else fill gpu_surface_desc_ from the
\* handle and surface_width_ / surface_height_ and return it.
S_Return ==
  /\ sample.pc = "queried"
  /\ sample' = IF sample.currentHandle = Null
               THEN [sample EXCEPT !.pc = "returned", !.result = "null"]
               ELSE [sample EXCEPT !.pc = "returned", !.result = "descriptor",
                       !.desc = [handle |-> sample.currentHandle,
                                 width |-> plugin.surface_width_,
                                 height |-> plugin.surface_height_,
                                 visible_width |-> plugin.surface_width_,
                                 visible_height |-> plugin.surface_height_,
                                 format |-> "BGRA8888", release_callback |-> FALSE]]
  /\ UNCHANGED <<wgl, gl, d3d, m_initialFrameCount, pc, arg, texPixels,
                 g_frameReadyCallback, native, plugin, notLife>>

\* The compositor has used what the callback returned.
S_Done ==
  /\ sample.pc = "returned"
  /\ sample' = SampleIdle
  /\ UNCHANGED <<wgl, gl, d3d, m_initialFrameCount, pc, arg, texPixels,
                 g_frameReadyCallback, native, plugin, notLife>>

SampleStep == S_Query \/ S_Return \/ S_Done

\* ----------------------------------------------------- specifications ----
PresentStep ==
  \/ Present \/ COPY_Lock \/ COPY_ReadGL \/ COPY_Map \/ COPY_Write \/ COPY_Unmap
  \/ COPY_CopyResource \/ COPY_Flush \/ FrameCallback \/ NotifyStep(Render)
  \/ KeepAlive

\* The surface under rendering and resizing: the render thread (Present,
\* MakeCurrent, DoneCurrent) and the platform thread
\* (agus_native_on_size_changed).
Next ==
  \/ \E w \in Dims, h \in Dims : agus_native_on_size_changed(w, h)
  \/ SetSurfaceSizeStep(Platform)
  \/ MakeCurrent \/ DoneCurrent
  \/ PresentStep

Spec == Init /\ [][Next]_vars

\* The surface under resizing while the compositor thread samples it.
NextReader ==
  \/ \E w \in Dims, h \in Dims : agus_native_on_size_changed(w, h)
  \/ SetSurfaceSizeStep(Platform)
  \/ R_GetSharedTextureHandle \/ R_GetD3D11Texture \/ R_GetWidth \/ R_GetHeight
  \/ R_Done

SpecReader == Init /\ [][NextReader]_vars

\* Resizing alone, on both factories.
NextResize ==
  \/ \E w \in Dims, h \in Dims : agus_native_on_size_changed(w, h)
  \/ SetSurfaceSizeStep(Platform)
  \/ \E w \in Dims, h \in Dims : VK_Call(w, h)
  \/ UpdateSurfaceSize

SpecResize == Init /\ [][NextResize]_vars

\* The notification path: Present on the draw and upload contexts, a second
\* trigger thread, the clock and the registration of the callback.
NextNotify ==
  \/ PresentStep \/ PresentUpload
  \/ ActiveFrameCallback \/ NotifyStep(Engine)
  \/ \E cb \in BOOLEAN : agus_set_frame_ready_callback(cb)
  \/ Tick

InitNotifySpec ==
  /\ InitFactory(MaxDim, MaxDim)
  /\ InitVulkan(MaxDim, MaxDim)
  /\ InitThreads /\ InitNotify /\ InitHist
  /\ InitSurface(MaxDim, MaxDim)
  /\ current = [t \in Threads |-> "none"]
  /\ g_frameReadyCallback = TRUE
  /\ fb = RenderedFrame

SpecNotify == InitNotifySpec /\ [][NextNotify]_vars

\* The render thread alone, with the draw context current and RenderedFrame in
\* the framebuffer: it resizes, sets the viewport and presents.
Viewports == {<<0, 0, 0, 0>>} \cup {<<0, 0, w, h>> : w \in Dims, h \in Dims}

InitTransfer ==
  /\ InitFactory(MaxDim, MaxDim)
  /\ InitVulkan(MaxDim, MaxDim)
  /\ InitThreads /\ InitNotify /\ InitHist
  /\ InitSurface(MaxDim, MaxDim)
  /\ current = [t \in Threads |-> IF t = Render THEN "draw" ELSE "none"]
  /\ g_frameReadyCallback = TRUE
  /\ fb = RenderedFrame

NextTransfer ==
  \/ \E w \in Dims, h \in Dims : Resize(w, h)
  \/ SetSurfaceSizeStep(Render)
  \/ \E vp \in Viewports : SetViewport(vp[1], vp[2], vp[3], vp[4])
  \/ PresentStep

SpecTransfer == InitTransfer /\ [][NextTransfer]_vars

\* The plugin from its construction: no surface yet; the platform thread
\* creates, resizes (to square sizes) and destroys the surface while the
\* raster thread samples the registered texture.
InitNoSurface ==
  /\ wgl = NoFactory /\ gl = NoFramebuffer
  /\ d3d = [closedHandles |-> {}, releasedTextures |-> {}, releasedStaging |-> {},
            createCalls |-> 0, completed |-> {},
            mapped |-> Null, flushedInto |-> Null]
  /\ m_initialFrameCount = 0
  /\ stagingPixels = <<>> /\ sharedPixels = <<>>
  /\ native = [g_wglFactory |-> FALSE, g_threadSafeFactory |-> FALSE,
               g_framework |-> FALSE, g_drapeEngineCreated |-> FALSE,
               g_platformInitialized |-> TRUE, g_mutex |-> FALSE,
               activeFrameCallback |-> FALSE, rendering |-> FALSE,
               call |-> "none", init |-> "none", surface |-> "never",
               dangling |-> FALSE]
  /\ plugin = [g_pluginInstance |-> TRUE, texture_id_ |-> -1, texture_ |-> FALSE,
               surface_width_ |-> 0, surface_height_ |-> 0,
               registered |-> {}, nextId |-> 1, doubleUnregister |-> FALSE,
               marks |-> {}]
  /\ sample = SampleIdle
  /\ rel = NoCleanup
  /\ query = NoQuery
  /\ binding = InitBinding
  /\ g_frameReadyCallback = FALSE

InitLife ==
  /\ InitNoSurface
  /\ InitVulkan(MaxDim, MaxDim)
  /\ InitThreads /\ InitNotify /\ InitHist
  /\ current = [t \in Threads |-> "none"]
  /\ fb = RenderedFrame

NextLife ==
  \/ \E n \in Dims : HandleCreateMapSurface(n, n, "ok")
  \/ \E n \in Dims : HandleResizeMapSurface(n, n)
  \/ SetSurfaceSizeStep(Platform)
  \/ HandleDestroyMapSurface \/ PluginDestructor
  \/ agus_native_on_surface_destroyed \/ comaps_shutdown
  \/ TeardownStep
  \/ SampleStep

SpecLife == InitLife /\ [][NextLife]_vars

\* A created surface under rendering, torn down by any of the four calls.
NextTeardown ==
  \/ PresentStep
  \/ HandleDestroyMapSurface \/ PluginDestructor
  \/ agus_native_on_surface_destroyed \/ comaps_shutdown
  \/ TeardownStep

SpecTeardown == Init /\ [][NextTeardown]_vars

\* Creation of the surface with every outcome of the factory's constructor,
\* followed by sampling and destruction.
NextCreate ==
  \/ \E n \in Dims, init \in InitOutcomes : HandleCreateMapSurface(n, n, init)
  \/ HandleDestroyMapSurface \/ agus_native_on_surface_destroyed
  \/ TeardownStep
  \/ SampleStep

SpecCreate == InitLife /\ [][NextCreate]_vars

\* --------------------------------------- release order of the cleanups ----
\* Each cleanup path as the sequence of members it releases, in the order of
\* its statements. A statement releases its member when the member is not
\* null and what its test also requires is not null.

\* CreateSharedTexture (WGL), before it creates anything: CloseHandle,
\* m_sharedTexture.Reset(), m_stagingTexture.Reset().
WglRecreateOrder == <<"m_sharedHandle", "m_sharedTexture", "m_stagingTexture">>

\* The textures are reset before the handle is closed.
CleanupD3D11Order_TexturesFirst ==
  <<"m_stagingTexture", "m_sharedTexture", "m_sharedHandle", "m_d3dContext",
    "m_d3dDevice">>

\* AgusWglContextFactory::CleanupD3D11.
CleanupD3D11Order ==
  <<"m_sharedHandle", "m_stagingTexture", "m_sharedTexture", "m_d3dContext",
    "m_d3dDevice">>

\* AgusWglContextFactory::CleanupWGL.
CleanupWGLOrder == <<"m_uploadGlrc", "m_drawGlrc", "m_hdc", "m_hiddenWindow">>

\* ~AgusWglContextFactory: the contexts, the GL objects (if m_drawGlrc),
\* CleanupWGL, CleanupD3D11.
WglDestructorOrder ==
  <<"m_drawContext", "m_uploadContext", "m_framebuffer", "m_renderTexture",
    "m_depthBuffer">> \o CleanupWGLOrder \o CleanupD3D11Order

\* AgusVulkanContextFactory::CleanupTexture; CreateSharedTexture starts with it.
CleanupTextureOrder ==
  <<"m_vulkanImageView", "m_vulkanImage", "m_vulkanMemory", "m_sharedHandle",
    "m_d3dTexture">>

\* AgusVulkanContextFactory::Cleanup, which is also the destructor.
CleanupOrder == CleanupTextureOrder \o <<"m_d3dContext", "m_d3dDevice">>

CleanupPaths ==
  [WglCreateSharedTexture |-> WglRecreateOrder,
   CleanupD3D11 |-> CleanupD3D11Order,
   WglDestructor |-> WglDestructorOrder,
   CleanupTexture |-> CleanupTextureOrder,
   Cleanup |-> CleanupOrder]

\* What the test around the release of a member also requires.
AlsoRequires(member) ==
  CASE member \in {"m_vulkanImageView", "m_vulkanImage", "m_vulkanMemory"} -> {"m_device"}
    [] member \in {"m_framebuffer", "m_renderTexture", "m_depthBuffer"} -> {"m_drawGlrc"}
    [] member = "m_hdc" -> {"m_hiddenWindow"}
    [] OTHER -> {}

Range(seq) == {seq[n] : n \in DOMAIN seq}

\* A cleanup function is entered with any of its members null or not.
InitRelease ==
  \E fn \in DOMAIN CleanupPaths :
    \E live \in SUBSET (Range(CleanupPaths[fn])
                        \cup UNION {AlsoRequires(m) : m \in Range(CleanupPaths[fn])}) :
      rel = [fn |-> fn, i |-> 1, live |-> live, log |-> <<>>]

\* The next statement of the function.
ReleaseStep ==
  /\ rel.fn # "none" /\ rel.i <= Len(CleanupPaths[rel.fn])
  /\ LET member == CleanupPaths[rel.fn][rel.i]
     IN  rel' = IF member \in rel.live /\ AlsoRequires(member) \subseteq rel.live
                THEN [rel EXCEPT !.i = @ + 1, !.live = @ \ {member},
                                 !.log = Append(@, member)]
                ELSE [rel EXCEPT !.i = @ + 1]
  /\ UNCHANGED <<wgl, gl, d3d, current, m_initialFrameCount, pc, arg, prevContext,
                 xfer, pixelVars, clock, notifyVars, rd, hist, native, plugin,
                 sample, query, binding, vk>>

InitReleaseSpec ==
  /\ InitFactory(MaxDim, MaxDim)
  /\ InitVulkan(MaxDim, MaxDim)
  /\ InitThreads /\ InitNotify /\ InitHist
  /\ native = [g_wglFactory |-> TRUE, g_threadSafeFactory |-> TRUE,
               g_framework |-> TRUE, g_drapeEngineCreated |-> TRUE,
               g_platformInitialized |-> TRUE, g_mutex |-> FALSE,
               activeFrameCallback |-> TRUE, rendering |-> TRUE,
               call |-> "none", init |-> "ok", surface |-> "created",
               dangling |-> FALSE]
  /\ plugin = [g_pluginInstance |-> TRUE, texture_id_ |-> 1, texture_ |-> TRUE,
               surface_width_ |-> MaxDim, surface_height_ |-> MaxDim,
               registered |-> {1}, nextId |-> 2, doubleUnregister |-> FALSE,
               marks |-> {}]
  /\ sample = SampleIdle
  /\ InitRelease
  /\ query = NoQuery
  /\ binding = InitBinding
  /\ current = [t \in Threads |-> "none"]
  /\ g_frameReadyCallback = TRUE
  /\ fb = RenderedFrame

SpecRelease == InitReleaseSpec /\ [][ReleaseStep]_vars

\* ------------------------- GetRendererName / GetRendererVersion ----
\* The two AgusWglContext objects, by their m_glrc.
OwnContexts == {"draw", "upload"}
RendererQueries == {"GetRendererName", "GetRendererVersion"}

\* No other thread has glrc current, so wglMakeCurrent(m_hdc, glrc) succeeds.
ContextFree(t, glrc) == \A u \in Threads \ {t} : current[u] # glrc

\* What each thread has current: a context is current on one thread at most.
CurrentStates ==
  {c \in [Threads -> {"none", "other"} \cup OwnContexts] :
     \A g \in OwnContexts : \A t, u \in Threads : (c[t] = g /\ c[u] = g) => t = u}

notQuery == <<wgl, gl, d3d, m_initialFrameCount, pc, arg, prevContext, xfer,
              pixelVars, clock, notifyVars, rd, hist, native, plugin, sample,
              rel, binding, vk>>

\* HGLRC current = wglGetCurrentContext(); bool needsRestore = (current != m_glrc);
\* if (needsRestore) wglMakeCurrent(m_hdc, m_glrc); glGetString(...).
Q_Enter(t, glrc, fn) ==
  /\ query.pc = "idle" /\ pc[t] = "idle"
  /\ query' = [pc |-> "queried", t |-> t, m_glrc |-> glrc, fn |-> fn,
               prior |-> current[t]]
  /\ current' = IF current[t] # glrc /\ ContextFree(t, glrc)
                THEN [current EXCEPT ![t] = glrc]
                ELSE current
  /\ UNCHANGED notQuery

\* if (needsRestore && current != nullptr) wglMakeCurrent(m_hdc, current);
\* return result;
Q_Return ==
  /\ query.pc = "queried"
  /\ current' = IF query.prior # query.m_glrc /\ query.prior # "none"
                THEN [current EXCEPT ![query.t] = query.prior]
                ELSE current
  /\ query' = [query EXCEPT !.pc = "returned"]
  /\ UNCHANGED notQuery

\* The caller goes on.
Q_Done ==
  /\ query.pc = "returned"
  /\ query' = NoQuery
  /\ UNCHANGED <<current, notQuery>>

NextQuery ==
  \/ \E t \in Threads, glrc \in OwnContexts, fn \in RendererQueries : Q_Enter(t, glrc, fn)
  \/ Q_Return
  \/ Q_Done

InitQuery ==
  /\ InitFactory(MaxDim, MaxDim)
  /\ InitVulkan(MaxDim, MaxDim)
  /\ InitThreads /\ InitNotify /\ InitHist
  /\ InitSurface(MaxDim, MaxDim)
  /\ current \in CurrentStates
  /\ g_frameReadyCallback = TRUE
  /\ fb = RenderedFrame

SpecQuery == InitQuery /\ [][NextQuery]_vars

\* SetSurfaceSize called by the platform thread with any context current on
\* it, while the render thread may hold a context of its own.
InitRestore ==
  /\ InitFactory(MaxDim, MaxDim)
  /\ InitVulkan(MaxDim, MaxDim)
  /\ InitThreads /\ InitNotify /\ InitHist
  /\ InitSurface(MaxDim, MaxDim)
  /\ current \in {c \in CurrentStates : c[Engine] = "none"}
  /\ g_frameReadyCallback = TRUE
  /\ fb = RenderedFrame

NextRestore ==
  \/ \E w \in Dims, h \in Dims : agus_native_on_size_changed(w, h)
  \/ SetSurfaceSizeStep(Platform)

SpecRestore == InitRestore /\ [][NextRestore]_vars

\* Present on a surface of any size, with the renderer setting any viewport.
InitReadback ==
  /\ \E w \in Dims, h \in Dims : InitFactory(w, h) /\ InitSurface(w, h)
  /\ InitVulkan(MaxDim, MaxDim)
  /\ InitThreads /\ InitNotify /\ InitHist
  /\ current = [t \in Threads |-> IF t = Render THEN "draw" ELSE "none"]
  /\ g_frameReadyCallback = TRUE
  /\ fb = RenderedFrame

NextReadback ==
  \/ \E vp \in Viewports : SetViewport(vp[1], vp[2], vp[3], vp[4])
  \/ PresentStep

SpecReadback == InitReadback /\ [][NextReadback]_vars

\* ------------------------------ SetFramebuffer / ForgetFramebuffer ----
notBinding == <<wgl, gl, d3d, current, m_initialFrameCount, pc, arg, prevContext,
                xfer, pixelVars, clock, notifyVars, rd, hist, native, plugin,
                sample, rel, query, vk>>

\* AgusWglContext::SetFramebuffer on the draw context; f = 0 stands for
\* nullptr. A provided framebuffer is bound and the binding is stored; for
\* nullptr m_framebuffer is bound and stored.
SetFramebuffer(f) ==
  /\ pc[Render] = "idle" /\ current[Render] = "draw"
  /\ f \notin binding.forgotten
  /\ binding' = [binding EXCEPT
                   !.m_lastBoundFramebuffer = IF f # 0 THEN f ELSE OwnFbo,
                   !.bound = IF f # 0 THEN f ELSE OwnFbo]
  /\ UNCHANGED notBinding

\* AgusWglContext::ForgetFramebuffer: the body is empty. The renderer calls
\* it when it destroys the framebuffer.
ForgetFramebuffer(f) ==
  /\ pc[Render] = "idle"
  /\ f \notin binding.forgotten
  /\ binding' = [binding EXCEPT !.forgotten = @ \cup {f}]
  /\ UNCHANGED notBinding

NextBinding ==
  \/ \E f \in {0} \cup RendererFbos : SetFramebuffer(f)
  \/ \E f \in RendererFbos : ForgetFramebuffer(f)
  \/ MakeCurrent \/ DoneCurrent
  \/ PresentStep

SpecBinding == Init /\ [][NextBinding]_vars

\* The render thread alone: it makes the draw context current, binds
\* framebuffers, resizes the surface (to square sizes) and presents.
NextFramebuffer ==
  \/ MakeCurrent \/ DoneCurrent
  \/ \E f \in {0} \cup RendererFbos : SetFramebuffer(f)
  \/ \E n \in Dims : Resize(n, n)
  \/ SetSurfaceSizeStep(Render)
  \/ PresentStep

SpecFramebuffer == Init /\ [][NextFramebuffer]_vars

\* Present with the renderer setting viewports of any origin and size.
OffsetViewports ==
  {<<x, y, w, h>> : x \in 0..MaxOrigin, y \in 0..MaxOrigin, w \in Dims, h \in Dims}

NextRegion ==
  \/ \E vp \in OffsetViewports : SetViewport(vp[1], vp[2], vp[3], vp[4])
  \/ PresentStep

SpecRegion == InitReadback /\ [][NextRegion]_vars

\* The three threads together: the render thread presents, the platform
\* thread creates, resizes and destroys the surface and shuts down, the
\* raster thread samples. Each thread that can take a step of a call it is
\* in eventually takes it.
RenderRuns ==
  \/ COPY_Lock \/ COPY_ReadGL \/ COPY_Map \/ COPY_Write \/ COPY_Unmap
  \/ COPY_CopyResource \/ COPY_Flush \/ FrameCallback \/ NotifyStep(Render)
  \/ KeepAlive

PlatformRuns == SetSurfaceSizeStep(Platform) \/ TeardownStep

NextThreads ==
  \/ PresentStep
  \/ \E n \in Dims : HandleCreateMapSurface(n, n, "ok")
  \/ \E n \in Dims : agus_native_on_size_changed(n, n)
  \/ SetSurfaceSizeStep(Platform)
  \/ agus_native_on_surface_destroyed \/ comaps_shutdown
  \/ TeardownStep
  \/ SampleStep

SpecThreads ==
  Init /\ [][NextThreads]_vars /\ WF_vars(RenderRuns) /\ WF_vars(PlatformRuns)

\* Consecutive Present() calls of the render thread while time passes, with a
\* frame-ready callback registered.
NextPace == PresentStep \/ Tick

SpecPace == Init /\ [][NextPace]_vars

\* The notification path while time passes: the render thread presents, the
\* renderer's active-frame callback triggers from a second thread. A thread
\* inside a call takes its next step and the clock advances; whether Present
\* or the active-frame callback is called again is up to the renderer.
EngineRuns == NotifyStep(Engine)

NextAnnounce == PresentStep \/ ActiveFrameCallback \/ NotifyStep(Engine) \/ Tick

SpecAnnounce ==
  /\ Init /\ [][NextAnnounce]_vars
  /\ WF_vars(RenderRuns) /\ WF_vars(EngineRuns) /\ WF_vars(Tick)

\* ============================================================ claims ====
SetMax(S) == CHOOSE m \in S : \A n \in S : n <= m

\* The transfer has mapped the staging texture and has not yet flushed.
TransferMapped == pc[Render] \in {"copy_write", "copy_unmap", "copy_resource", "copy_flush"}

\* C1: the bodies of CopyToSharedTexture and SetSurfaceSize never run at the
\* same time, and from the Map until the Flush of a transfer the factory's
\* staging and shared textures are the ones that transfer mapped, neither
\* released nor replaced.
C1_TransferExcludesResize ==
  /\ ~(pc[Render] \in PresentBody /\ pc[Platform] \in ResizeBody)
  /\ TransferMapped =>
       /\ xfer.staging # Null /\ xfer.shared # Null
       /\ IdOf(wgl.m_stagingTexture) = xfer.staging
       /\ IdOf(wgl.m_sharedTexture) = xfer.shared
       /\ xfer.staging \notin d3d.releasedStaging
       /\ xfer.shared \notin d3d.releasedTextures

\* A size-changing resize waits at the mutex while a transfer is about to
\* flush.
C1_Witness ==
  /\ pc[Render] = "copy_flush" /\ pc[Platform] = "ss_lock"
  /\ arg[Platform] # <<wgl.m_width, wgl.m_height>>
  /\ d3d.flushedInto # Null

\* C2: a sample of the four accessors taken by the compositor thread is the
\* complete state of one generation: a handle that is not null and was not
\* closed when read, the texture created with it, and that texture's size.
C2_ReaderSeesOneGeneration ==
  rd.pc = "done" =>
    /\ ~rd.closedAtRead
    /\ rd.handle # Null
    /\ IdOf(rd.texture) = rd.handle
    /\ rd.w = rd.texture.w /\ rd.h = rd.texture.h

\* C3: any two invocations of the registered frame-ready callback were
\* dispatched with time stamps at least kMinFrameInterval apart.
C3_DispatchesSpaced ==
  \A i \in DOMAIN dispatchLog : \A j \in DOMAIN dispatchLog :
    i < j => dispatchLog[j].now - dispatchLog[i].now >= kMinFrameInterval

\* A thread is between the compare_exchange it won and its return.
InFlight(t) == pc[t] \in {"n_stamp", "n_call", "n_clear"}

C4_OneOutstanding ==
  /\ Cardinality({t \in Notifiers : InFlight(t)}) <= 1
  /\ \A t \in Notifiers : InFlight(t) => g_frameNotificationPending /\ pendingOwner = t
  /\ g_frameNotificationPending => \E t \in Notifiers : InFlight(t)

C4_DropAndClear ==
  /\ \A t \in Notifiers :
       (pc[t] = "n_cas" /\ g_frameNotificationPending /\ pc'[t] # "n_cas") =>
          /\ pc'[t] = AfterNotify(t)
          /\ dispatchLog' = dispatchLog
          /\ g_frameNotificationPending' /\ pendingOwner' = pendingOwner
  /\ (g_frameNotificationPending /\ ~g_frameNotificationPending') =>
       /\ pc[pendingOwner] = "n_clear"
       /\ pc'[pendingOwner] = AfterNotify(pendingOwner)

\* C4: at most one thread is between winning the compare_exchange and its
\* return, the pending flag is set exactly then and by that thread; a trigger
\* that finds the flag set returns without dispatching and leaves the flag
\* set; the flag is cleared only by the thread that set it.
C4_AtMostOneOutstanding == [](C4_OneOutstanding) /\ [][C4_DropAndClear]_vars

\* The engine thread's trigger is about to be dropped while the render
\* thread's invocation of the callback is in progress.
C4_Witness ==
  /\ pc[Render] = "n_call" /\ pendingOwner = Render
  /\ pc[Engine] = "n_cas"
  /\ g_frameReadyCallback

\* Present() calls on the draw context that have returned.
PresentsReturned == hist.presents - (IF pc[Render] = "idle" THEN 0 ELSE 1)

C5_Countdown ==
  /\ m_initialFrameCount >= 0
  /\ hist.keepAliveCalls = Min(PresentsReturned, InitialFrameBudget)
  /\ m_initialFrameCount = InitialFrameBudget - hist.keepAliveCalls

C5_Channels ==
  /\ hist.keepAliveCalls' # hist.keepAliveCalls =>
       /\ hist.keepAliveCalls' = hist.keepAliveCalls + 1
       /\ pc[Render] = "keepalive" /\ pc'[Render] = "idle"
       /\ dispatchLog' = dispatchLog
  /\ hist.uploadPresents' # hist.uploadPresents =>
       /\ hist.keepAliveCalls' = hist.keepAliveCalls
       /\ m_initialFrameCount' = m_initialFrameCount

\* C5: the keep-alive callback has been invoked once for each of the first
\* InitialFrameBudget Present() calls that returned and for no later one,
\* whatever the throttle did; the counter is never negative; an invocation of
\* keep-alive happens only at the end of a draw-context Present and dispatches
\* no frame-ready callback; a Present on the upload context invokes nothing.
C5_KeepAliveBudget == [](C5_Countdown) /\ [][C5_Channels]_vars

\* One Present more than the budget has returned, fewer notifications than
\* keep-alives were dispatched, and the upload context has presented.
C5_Witness ==
  /\ pc[Render] = "idle" /\ hist.presents = InitialFrameBudget + 1
  /\ hist.keepAliveCalls = InitialFrameBudget
  /\ Len(dispatchLog) < InitialFrameBudget
  /\ hist.uploadPresents > 0

\* The frame has been converted and copied into the shared texture.
Copied == pc[Render] = "copy_flush"
TargetW == wgl.m_sharedTexture.w
TargetH == wgl.m_sharedTexture.h
PartialTransfer ==
  Copied /\ (xfer.readWidth < TargetW \/ xfer.readHeight < TargetH)
FullTransfer ==
  Copied /\ xfer.readWidth = TargetW /\ xfer.readHeight = TargetH
Inside(x, y) == x < xfer.readWidth /\ y < xfer.readHeight
\* The rendered pixel that belongs at destination (x, y): row readHeight-1-y.
Source(x, y) == fb[<<x, xfer.readHeight - 1 - y>>]
DestIsTarget ==
  /\ DOMAIN sharedPixels = 0..(TargetH - 1)
  /\ \A y \in DOMAIN sharedPixels : DOMAIN sharedPixels[y] = 0..(TargetW - 1)
  /\ wgl.m_width = TargetW /\ wgl.m_height = TargetH

\* C6 as stated: after a partial transfer every destination pixel has alpha 255.
C6_PartialTransferOpaque ==
  PartialTransfer =>
    \A y \in 0..(TargetH - 1) : \A x \in 0..(TargetW - 1) :
      sharedPixels[y][x][4] = 255

\* C6 as amended: after a partial transfer every destination pixel outside
\* the rendered rectangle has alpha 255 and every pixel inside it has the
\* alpha of its rendered source pixel.
C6_PartialTransferAlpha ==
  PartialTransfer =>
    \A y \in 0..(TargetH - 1) : \A x \in 0..(TargetW - 1) :
      sharedPixels[y][x][4] = IF Inside(x, y) THEN Source(x, y)[4] ELSE 255

\* A 1 x 1 viewport holding a translucent pixel was transferred into a
\* 2 x 2 target.
C6_Witness ==
  /\ PartialTransfer /\ Source(0, 0)[4] # 255
  /\ xfer.readWidth = 1 /\ xfer.readHeight = 1 /\ TargetW = 2 /\ TargetH = 2

\* C7: after a partial transfer destination (x, y) inside the rendered
\* rectangle is rendered pixel (x, h'-1-y) with red and blue exchanged, every
\* pixel outside it is black, and the destination still has the target size.
C7_PartialTransferLayout ==
  PartialTransfer =>
    /\ DestIsTarget
    /\ \A y \in 0..(TargetH - 1) : \A x \in 0..(TargetW - 1) :
         IF Inside(x, y)
         THEN sharedPixels[y][x] = <<Source(x, y)[3], Source(x, y)[2],
                                     Source(x, y)[1], Source(x, y)[4]>>
         ELSE /\ sharedPixels[y][x][1] = 0 /\ sharedPixels[y][x][2] = 0
              /\ sharedPixels[y][x][3] = 0

\* Two rendered rows of one pixel were transferred into a 2 x 2 target.
C7_Witness ==
  /\ PartialTransfer
  /\ xfer.readWidth = 1 /\ xfer.readHeight = 2 /\ TargetW = 2 /\ TargetH = 2

\* C8: after a transfer of the full target size destination (x, y) is
\* rendered pixel (x, H-1-y) in BGRA order, for every pixel of the target.
C8_FullTransferLayout ==
  FullTransfer =>
    /\ DestIsTarget
    /\ \A y \in 0..(TargetH - 1) : \A x \in 0..(TargetW - 1) :
         LET s == fb[<<x, TargetH - 1 - y>>]
         IN  sharedPixels[y][x] = <<s[3], s[2], s[1], s[4]>>

\* A full frame of two rows was transferred after a resize.
C8_Witness ==
  /\ FullTransfer /\ TargetH = 2 /\ IdOf(wgl.m_sharedTexture) = 2

C9_NoOpStep ==
  /\ (/\ pc[Platform] = "ss_lock" /\ pc'[Platform] # "ss_lock"
      /\ arg[Platform] = <<wgl.m_width, wgl.m_height>>)
     => /\ pc'[Platform] = "idle"
        /\ wgl' = wgl /\ gl' = gl /\ d3d' = d3d
        /\ sharedPixels' = sharedPixels /\ stagingPixels' = stagingPixels
  /\ (vk.pc = "update" /\ vk'.pc # "update" /\ vk.arg = <<vk.m_width, vk.m_height>>)
     => vk' = [vk EXCEPT !.pc = "idle", !.arg = <<0, 0>>]

\* C9: a SetSurfaceSize / UpdateSurfaceSize call whose arguments equal the
\* current size returns with the factory, its GL attachments and its D3D11
\* objects exactly as they were: nothing is closed, released or created.
C9_SameSizeNoOp == [][C9_NoOpStep]_vars

\* After one completed recreation on each factory, a second call with the
\* size just set is at its size test.
C9_Witness ==
  /\ pc[Platform] = "ss_lock" /\ arg[Platform] = <<wgl.m_width, wgl.m_height>>
  /\ d3d.createCalls = 2 /\ wgl.m_sharedHandle = 2 /\ 2 \in d3d.completed
  /\ vk.pc = "update" /\ vk.arg = <<vk.m_width, vk.m_height>>
  /\ vk.createCalls = 2 /\ vk.m_sharedHandle = 2

\* The generation that was valid before the last WGL resize, when that
\* resize failed: its recreation did not complete, or it completed with the
\* framebuffer incomplete.
WglResizeFailed ==
  d3d.createCalls > 1 /\ (d3d.createCalls \notin d3d.completed \/ ~gl.fboComplete)
WglPrevious == SetMax(d3d.completed \ {d3d.createCalls})
VkResizeFailed == vk.createCalls \notin vk.completed

\* C10: once a failed resize has returned, the accessors still serve the
\* generation that was valid before it: its handle, open; its texture,
\* alive; its width and height.
C10_FailedResizeKeepsPrevious ==
  /\ (pc[Platform] = "idle" /\ WglResizeFailed) =>
       /\ wgl.m_sharedHandle = WglPrevious
       /\ wgl.m_sharedHandle \notin d3d.closedHandles
       /\ IdOf(wgl.m_sharedTexture) = WglPrevious
       /\ WglPrevious \notin d3d.releasedTextures
       /\ wgl.m_width = wgl.m_sharedTexture.w /\ wgl.m_height = wgl.m_sharedTexture.h
  /\ (vk.pc = "idle" /\ VkResizeFailed) =>
       /\ vk.m_sharedHandle = SetMax(vk.completed)
       /\ vk.m_sharedHandle \notin vk.closedHandles
       /\ IdOf(vk.m_d3dTexture) = vk.m_sharedHandle
       /\ vk.m_width = vk.m_d3dTexture.w /\ vk.m_height = vk.m_d3dTexture.h

\* A CreateSharedTexture call of the WGL / Vulkan factory returned false.
WglCreateFailed == pc[Platform] = "idle" /\ d3d.createCalls \notin d3d.completed
VkCreateFailed == vk.pc = "idle" /\ vk.createCalls \notin vk.completed

\* C11: after a CreateSharedTexture call that failed at any of its allocation
\* steps the factory holds no shared texture, no shareable handle and no
\* staging texture.
C11_FailedCreateLeavesNothing ==
  /\ WglCreateFailed =>
       /\ wgl.m_sharedTexture = NoTexture
       /\ wgl.m_sharedHandle = Null
       /\ wgl.m_stagingTexture = NoTexture
  /\ VkCreateFailed =>
       vk.m_d3dTexture = NoTexture /\ vk.m_sharedHandle = Null

\* C12: between calls, the shareable handle is non-null exactly when the
\* shared texture is, on both factories.
C12_HandleIffTexture ==
  /\ pc[Platform] = "idle" =>
       (wgl.m_sharedHandle # Null <=> wgl.m_sharedTexture # NoTexture)
  /\ vk.pc = "idle" =>
       (vk.m_sharedHandle # Null <=> vk.m_d3dTexture # NoTexture)

\* C13: between calls of SetSurfaceSize, the width and height the accessors
\* report are the arguments of the last CreateSharedTexture call that
\* completed. After a call that completed they are the size of the texture it
\* created; a call that reached CreateSharedTexture had arguments other than
\* the size reported until then (SetSurfaceSize returns at once for that
\* size), so after a call that failed they are not its arguments.
C13_SizeOfLastCompleted ==
  pc[Platform] = "idle" =>
    IF d3d.createCalls \in d3d.completed
    THEN <<wgl.m_width, wgl.m_height>> = <<wgl.m_sharedTexture.w, wgl.m_sharedTexture.h>>
    ELSE <<wgl.m_width, wgl.m_height>> # arg[Platform]

\* A size-changing SetSurfaceSize returns having succeeded: the framebuffer
\* was found complete and CreateSharedTexture returns true.
ResizeSucceeds(t) ==
  pc[t] = "cst_dims" /\ pc'[t] = "idle" /\ gl.fboComplete

C14_Step ==
  \A t \in {Render, Platform} :
    ResizeSucceeds(t) =>
      /\ gl'.fboComplete
      /\ gl'.storage.w = arg[t][1] /\ gl'.storage.h = arg[t][2]
      /\ gl'.viewport = <<0, 0, arg[t][1], arg[t][2]>>
      /\ gl'.scissor = <<0, 0, arg[t][1], arg[t][2]>>
      /\ wgl'.m_width = arg[t][1] /\ wgl'.m_height = arg[t][2]

\* C14: when a size-changing SetSurfaceSize(newW, newH) returns having
\* succeeded, the framebuffer is complete, its attachments have storage of
\* newW x newH, and viewport and scissor are both (0, 0, newW, newH).
C14_ResizeResetsViewport == [][C14_Step]_vars

\* A successful resize to a size smaller than the constructed one is about to
\* return.
C14_Witness ==
  /\ pc[Platform] = "cst_dims" /\ gl.fboComplete
  /\ arg[Platform] = <<1, 1>> /\ gl.storage.gen = 1
  /\ wgl.m_stagingTexture # NoTexture

\* The render thread's Present dispatches: the registered frame-ready callback
\* is invoked from the notification that Present triggered.
PresentDispatches ==
  /\ pc[Render] = "n_call" /\ pc'[Render] = "n_clear"
  /\ Len(dispatchLog') = Len(dispatchLog) + 1

C15_Step ==
  /\ PresentDispatches =>
       /\ xfer.flushed
       /\ wgl.m_mutex # Render /\ d3d.mapped = Null
  /\ (pc[Render] # "idle" /\ pc'[Render] # pc[Render]) => (fb' = fb /\ gl' = gl)

\* C15: when a notification triggered by a Present is dispatched, the transfer
\* of that Present has returned and its copy has been flushed; no step of
\* Present exchanges or alters the framebuffers.
C15_NotifyAfterFlush == [][C15_Step]_vars

\* No surface exists: none was ever created, or the last teardown call has
\* returned, and no lifecycle call is in progress.
NoSurface == pc[Platform] = "idle" /\ native.surface \in {"never", "destroyed"}

\* The raster thread is about to sample the registered texture.
AboutToSample ==
  sample.pc = "idle" /\ plugin.texture_ /\ plugin.texture_id_ \in plugin.registered

\* C16: agus_get_shared_texture_handle, agus_get_d3d11_device and
\* agus_get_d3d11_texture return null whenever no surface exists (before the
\* first agus_native_create_surface, after agus_native_on_surface_destroyed or
\* comaps_shutdown), and they never wait on a lock: the query of a thread that
\* is about to sample can be taken whoever holds m_mutex or g_mutex.
C16_AccessorsNullWithoutSurface ==
  /\ NoSurface => /\ agus_get_shared_texture_handle = {Null}
                  /\ agus_get_d3d11_device = {FALSE}
                  /\ agus_get_d3d11_texture = {Null}
  /\ AboutToSample => ENABLED S_Query

\* The surface was destroyed by a call that left the texture registered, and
\* the raster thread's query returned null.
C16_Witness ==
  /\ NoSurface /\ native.surface = "destroyed" /\ d3d.closedHandles # {}
  /\ sample.pc = "queried" /\ sample.currentHandle = Null /\ sample.nullAtRead

\* C17: every descriptor the sampling callback returns carries the shareable
\* handle that was current at the sample (the handle of the shared texture
\* of that moment, not a closed one) with the width and height of that texture;
\* the visible size equals them, the format is BGRA8 and there is no release
\* callback. This is to hold at any time: after a resize, after a failed or
\* skipped native resize, and while a resize is in progress.
C17_DescriptorMatchesTexture ==
  (sample.pc = "returned" /\ sample.result = "descriptor") =>
    /\ sample.desc.handle = sample.currentHandle
    /\ ~sample.closedAtRead
    /\ IdOf(sample.textureAtRead) = sample.desc.handle
    /\ sample.desc.width = sample.textureAtRead.w
    /\ sample.desc.height = sample.textureAtRead.h
    /\ sample.desc.visible_width = sample.desc.width
    /\ sample.desc.visible_height = sample.desc.height
    /\ sample.desc.format = "BGRA8888"
    /\ ~sample.desc.release_callback

\* C18: whenever the shareable handle is null when the sampling callback reads
\* it (no factory installed, or the factory's handle is null because the
\* texture is being recreated or its recreation failed), the callback returns
\* null; a descriptor it returns holds the non-null handle it has just read,
\* never a null handle or a handle kept from an earlier sample.
C18_NullHandleNoFrame ==
  /\ (sample.pc = "returned" /\ sample.nullAtRead) => sample.result = "null"
  /\ (sample.pc = "returned" /\ sample.result = "descriptor") =>
       /\ sample.desc.handle # Null
       /\ sample.desc.handle = sample.currentHandle

\* The callback has returned null for a sample taken while the platform
\* thread is inside CreateSharedTexture with the handle already closed.
C18_Witness ==
  /\ sample.pc = "returned" /\ sample.nullAtRead /\ sample.result = "null"
  /\ pc[Platform] \in {"cst_resetshared", "cst_resetstaging", "cst_createshared",
                       "cst_gethandle"}
  /\ wgl.m_sharedHandle = Null /\ native.g_threadSafeFactory

InTeardown == pc[Platform] \in {"osd_disable", "osd_reset", "osd_null"}

\* The 'no surface' state: no factory installed or owned, no texture
\* registered, the engine-created flag cleared.
NoSurfaceState(n, w, p) ==
  /\ ~n.g_wglFactory /\ ~n.g_threadSafeFactory /\ ~n.g_drapeEngineCreated
  /\ w = NoFactory
  /\ p.registered = {} /\ p.texture_id_ = -1 /\ ~p.texture_

\* C20: surface destruction is safe in every state. After any sequence of
\* create, resize and destroy calls, destroyMapSurface ends in the 'no
\* surface' state, and agus_native_on_surface_destroyed ends with no factory
\* installed and the engine-created flag cleared; a destroy call made in the
\* 'no surface' state changes nothing; no texture is unregistered twice and
\* no handle is closed twice.
C20_Step ==
  /\ (pc[Platform] = "osd_null" /\ pc'[Platform] = "idle" /\ native.call = "destroy")
       => NoSurfaceState(native', wgl', plugin')
  /\ (pc[Platform] = "osd_null" /\ pc'[Platform] = "idle" /\ native.call = "ffi")
       => (~native'.g_wglFactory /\ ~native'.g_threadSafeFactory
           /\ ~native'.g_drapeEngineCreated /\ wgl' = NoFactory)
  /\ (native.call \in {"destroy", "ffi"} /\ InTeardown
      /\ NoSurfaceState(native, wgl, plugin))
       => (d3d' = d3d /\ wgl' = wgl /\ gl' = gl /\ plugin' = plugin
           /\ [native' EXCEPT !.call = native.call] = native)
  /\ (pc[Platform] = "idle" /\ pc'[Platform] = "osd_disable"
      /\ native'.call \in {"destroy", "ffi"} /\ NoSurfaceState(native, wgl, plugin))
       => (plugin' = plugin /\ d3d' = d3d /\ wgl' = wgl)
  /\ ~plugin'.doubleUnregister
  /\ (pc[Platform] = "osd_reset" /\ pc'[Platform] = "osd_null"
      /\ native.g_threadSafeFactory)
       => wgl.m_sharedHandle \notin d3d.closedHandles

C20_DestroySafe == [][C20_Step]_vars

\* C21: if the initialization of the factory fails (WGL setup, D3D11 device
\* creation or shared texture creation), agus_native_create_surface does not
\* create the DrapeEngine, does not enable rendering against that factory and
\* leaves no factory installed as the current surface.
C21_FailedInitNotInstalled ==
  (pc[Platform] = "idle" /\ native.init \in InitOutcomes \ {"ok"}) =>
    /\ ~native.g_drapeEngineCreated
    /\ ~native.rendering
    /\ ~native.g_wglFactory /\ ~native.g_threadSafeFactory

\* The time stamp of the last notification that was dispatched (the initial
\* value of g_lastFrameNotification before the first).
LastDispatch ==
  IF dispatchLog = <<>> THEN 0 ELSE dispatchLog[Len(dispatchLog)].now

\* The render thread takes a step of notifyFlutterFrameReady.
RenderNotifies(label) == pc[Render] = label /\ pc'[Render] # label

C22_Spaced ==
  /\ \A i \in DOMAIN dispatchLog : \A j \in DOMAIN dispatchLog :
       i < j => dispatchLog[j].now >= dispatchLog[i].now + kMinFrameInterval
  /\ Len(dispatchLog) <= hist.presents

C22_Step ==
  /\ (RenderNotifies("n_elapsed") /\ now[Render] - LastDispatch >= kMinFrameInterval)
       => pc'[Render] = "n_cas"
  /\ (RenderNotifies("n_cas") /\ ~g_frameNotificationPending)
       => pc'[Render] = "n_stamp"
  /\ RenderNotifies("n_stamp") => pc'[Render] = "n_call"
  /\ (RenderNotifies("n_call") /\ g_frameReadyCallback)
       => dispatchLog' = Append(dispatchLog, [by |-> Render, now |-> now[Render]])

\* C22: consecutive Present() calls spaced less than 16 ms apart (1/120 s) do
\* not all dispatch a notification: dispatched notifications are at least
\* kMinFrameInterval apart. A trigger that arrives kMinFrameInterval or more
\* after the last dispatched notification, with none in flight, is always
\* dispatched; as the interval is counted from the last dispatched one,
\* suppressed triggers do not postpone it. Calls spaced 8 ms apart therefore
\* dispatch on every second call.
C22_ThrottledPace == [](C22_Spaced) /\ [][C22_Step]_vars

\* Three Present() calls with 8 ms steps of the clock between them: the first
\* and the third dispatched, 16 ms apart, the second was suppressed.
C22_Witness ==
  /\ hist.presents = 3 /\ pc[Render] = "idle" /\ hist.ticks = 2
  /\ Len(dispatchLog) = 2
  /\ dispatchLog[2].now - dispatchLog[1].now = kMinFrameInterval

\* The render thread drops the frame: CopyToSharedTexture returns at the test
\* of the textures or after a failed Map.
DropsFrame == pc[Render] \in {"copy_lock", "copy_map"} /\ pc'[Render] = "frame_cb"

\* Outside the bodies that hold m_mutex the render thread holds neither the
\* mutex nor a mapping.
C23_Released ==
  pc[Render] \notin (PresentBody \cup ResizeBody)
    => (wgl.m_mutex # Render /\ d3d.mapped = Null)

C23_Step ==
  /\ DropsFrame => /\ sharedPixels' = sharedPixels
                   /\ d3d'.flushedInto = d3d.flushedInto
                   /\ wgl'.m_mutex = "free" /\ d3d'.mapped = Null
  /\ (pc[Render] = "copy_lock" /\ pc'[Render] # "copy_lock"
      /\ wgl.m_stagingTexture # NoTexture /\ wgl.m_sharedTexture # NoTexture)
       => (pc'[Render] = "copy_gl" /\ wgl'.m_mutex = Render)
  /\ (pc[Render] = "copy_gl" /\ pc'[Render] # "copy_gl") => pc'[Render] = "copy_map"

\* C23: a failed transfer (staging or shared texture missing, or Map of the
\* staging texture fails) drops only that frame: the shared texture is not
\* written, m_mutex and the mapping are not left held, and every later Present
\* that finds both textures locks, reads the framebuffer and tries the Map
\* again, whatever happened to the frame before.
C23_FailedTransferDropsFrame == [](C23_Released) /\ [][C23_Step]_vars

\* The second Present has mapped and filled the staging texture while the
\* shared texture of the only CreateSharedTexture call was never written: the
\* first Present dropped its frame.
C23_Witness ==
  /\ hist.presents = 2 /\ pc[Render] = "copy_resource"
  /\ d3d.createCalls = 1 /\ d3d.flushedInto = Null
  /\ sharedPixels = UndefImage(wgl.m_width, wgl.m_height)

\* C24: during every texture recreation the new shareable handle becomes
\* visible to readers only after the new staging texture was created: whenever
\* a reader can call GetSharedTextureHandle and get a handle, the staging
\* texture of that handle's generation exists.
C24_HandleAfterStaging ==
  (ENABLED R_GetSharedTextureHandle /\ wgl.m_sharedHandle # Null)
    => IdOf(wgl.m_stagingTexture) = wgl.m_sharedHandle

\* ---------------------------------------------------------------- C25 ----
\* Position of a member in the release log, 0 when it was not released.
ReleasedAt(member) ==
  IF \E n \in DOMAIN rel.log : rel.log[n] = member
  THEN CHOOSE n \in DOMAIN rel.log : rel.log[n] = member
  ELSE 0

\* If both were released, first was released before then.
ReleasedBefore(first, then) ==
  (ReleasedAt(first) # 0 /\ ReleasedAt(then) # 0) => ReleasedAt(first) < ReleasedAt(then)

BackingTextures == {"m_sharedTexture", "m_stagingTexture", "m_d3dTexture"}

\* C25: in CreateSharedTexture, CleanupD3D11, CleanupTexture, Cleanup and the
\* destructors, at every statement, the shareable handle was closed before any
\* backing texture was released; on the Vulkan path the image view was
\* destroyed before the image, the image before the memory and the memory
\* before the handle was closed; and nothing is released after the D3D11 device.
C25_DependencyOrder ==
  /\ \A t \in BackingTextures : ReleasedBefore("m_sharedHandle", t)
  /\ ReleasedBefore("m_vulkanImageView", "m_vulkanImage")
  /\ ReleasedBefore("m_vulkanImage", "m_vulkanMemory")
  /\ ReleasedBefore("m_vulkanMemory", "m_sharedHandle")
  /\ ReleasedAt("m_d3dDevice") \in {0, Len(rel.log)}

\* A cleanup ran to its end and released every member of its path, the handle,
\* a texture and the device among them.
C25_Witness ==
  /\ rel.fn \in {"CleanupD3D11", "WglDestructor", "Cleanup"}
  /\ rel.i > Len(CleanupPaths[rel.fn])
  /\ Len(rel.log) = Len(CleanupPaths[rel.fn])

\* ---------------------------------------------------------------- C26 ----
\* C26: between calls on the Vulkan factory, IsValid() is false while the
\* last CreateSharedTexture call is one that failed, and IsValid() is never
\* true while the shareable handle is null.
C26_InvalidAfterFailedCreate ==
  vk.pc = "idle" =>
    /\ VkResizeFailed => ~IsValid(vk)
    /\ IsValid(vk) => vk.m_sharedHandle # Null

\* ---------------------------------------------------------------- C27 ----
\* C27: when GetRendererName or GetRendererVersion has returned, the calling
\* thread has current the context it had current before the call, whether
\* that was the queried context, another context or none.
C27_QueryRestoresContext ==
  query.pc = "returned" => current[query.t] = query.prior

\* ---------------------------------------------------------------- C28 ----
\* The part of SetSurfaceSize after the GL work: the assignments of the size
\* and CreateSharedTexture.
AfterRestore == ResizeBody \ {"ss_makecurrent", "ss_gl"}

\* From the restore on, the thread has current what was saved at entry.
C28_Restored ==
  \A t \in Threads : pc[t] \in AfterRestore => current[t] = prevContext[t]

\* Both early returns leave the current context alone; what is saved is what
\* was current at entry; the GL work ends by making the saved context current
\* (none if none was); nothing after that changes it.
C28_Step ==
  \A t \in Threads :
    /\ (pc[t] \in {"ss_lock", "ss_makecurrent"} /\ pc'[t] = "idle") =>
         current'[t] = current[t]
    /\ (pc[t] = "ss_makecurrent" /\ pc'[t] = "ss_gl") => prevContext'[t] = current[t]
    /\ (pc[t] = "ss_gl" /\ pc'[t] # "ss_gl") => current'[t] = prevContext[t]
    /\ pc[t] \in AfterRestore =>
         current'[t] = current[t] /\ prevContext'[t] = prevContext[t]

ViewportSizes == (0 - 1)..(MaxDim + 1)

\* The read size is within 1..W x 1..H for every viewport and target.
C29_ClampedForAll ==
  \A vw \in ViewportSizes, vh \in ViewportSizes, W \in Dims, H \in Dims :
    LET rs == ReadSize(<<0, 0, vw, vh>>, W, H)
    IN  1 <= rs[1] /\ rs[1] <= W /\ 1 <= rs[2] /\ rs[2] <= H

\* C29: whatever viewport is current at Present, the size read back is at
\* least 1 x 1 and at most the target size, the pixel buffer has that many
\* pixels, every pixel the copy loops read is in the buffer and every pixel
\* they write is in the mapped staging texture.
C29_ReadbackInBounds ==
  /\ C29_ClampedForAll
  /\ pc[Render] \in {"copy_map", "copy_write"} =>
       /\ 1 <= xfer.readWidth /\ xfer.readWidth <= wgl.m_width
       /\ 1 <= xfer.readHeight /\ xfer.readHeight <= wgl.m_height
       /\ Len(pixels) = xfer.readWidth * xfer.readHeight
  /\ pc[Render] = "copy_write" =>
       /\ PixelIndices(xfer.readWidth, xfer.readHeight, wgl.m_width, wgl.m_height)
            \subseteq 0..(Len(pixels) - 1)
       /\ d3d.mapped = IdOf(wgl.m_stagingTexture)
       /\ StagingCells(xfer.readWidth, xfer.readHeight, wgl.m_width, wgl.m_height)
            \subseteq (0..(wgl.m_stagingTexture.h - 1)) \X (0..(wgl.m_stagingTexture.w - 1))

\* The loops are about to run on a frame read with a viewport larger than
\* the target in one direction: the read size was clamped.
C29_Witness ==
  /\ pc[Render] = "copy_write"
  /\ (gl.viewport[3] > wgl.m_width \/ gl.viewport[4] > wgl.m_height)
  /\ xfer.readWidth <= wgl.m_width /\ xfer.readHeight <= wgl.m_height

\* ---------------------------------------------------------------- C30 ----
\* C30: when the transfer has chosen the framebuffer to read, it is the one
\* the renderer last bound with SetFramebuffer (the offscreen framebuffer for
\* SetFramebuffer(null), and when nothing was bound yet), it is the offscreen
\* framebuffer only in those two cases, and it is not a framebuffer the
\* renderer has forgotten.
C30_ReadsLastBound ==
  pc[Render] = "copy_map" =>
    /\ binding.fboToRead = FboToRead(binding.m_lastBoundFramebuffer)
    /\ binding.fboToRead = OwnFbo => binding.m_lastBoundFramebuffer \in {0, OwnFbo}
    /\ binding.fboToRead \notin binding.forgotten

\* ---------------------------------------------------------------- C31 ----
\* C31: the rectangle a transfer has read is the viewport in effect at
\* Present: its origin is the viewport's origin and its size is the
\* viewport's size clamped to the target size.
C31_ReadsViewportRectangle ==
  pc[Render] = "copy_map" =>
    /\ ReadOrigin = <<gl.viewport[1], gl.viewport[2]>>
    /\ <<xfer.readWidth, xfer.readHeight>> = ReadSize(gl.viewport, wgl.m_width, wgl.m_height)

\* ---------------------------------------------------------------- C32 ----
\* Thread t cannot go on before thread u does: t waits for m_mutex, which u
\* holds, or t is in SetRenderingDisabled(true), which returns when the
\* render thread has left its frame.
WaitsFor(t, u) ==
  \/ pc[t] \in {"copy_lock", "ss_lock"} /\ wgl.m_mutex = u
  \/ /\ t = Platform /\ u = Render
     /\ pc[t] = "osd_disable" /\ native.g_framework /\ pc[Render] # "idle"

C32_NoCyclicWait ==
  \A t \in Threads : \A u \in Threads \ {t} : ~(WaitsFor(t, u) /\ WaitsFor(u, t))

\* The frame callback and the keep-alive callback run without m_mutex, and
\* the thread that holds g_mutex never waits for m_mutex.
C32_NoCallbackUnderLock ==
  /\ pc[Render] \in {"frame_cb", "n_now", "n_elapsed", "n_cas", "n_stamp", "n_call",
                     "n_clear", "keepalive"} => wgl.m_mutex # Render
  /\ native.g_mutex => pc[Platform] \notin {"ss_lock"} \cup ResizeBody

\* C32: the three threads never wait for each other in a cycle, no callback
\* runs while m_mutex is held, and every Present and every SetSurfaceSize
\* that was entered returns.
C32_NoDeadlock ==
  /\ [](C32_NoCyclicWait /\ C32_NoCallbackUnderLock)
  /\ (pc[Render] # "idle") ~> (pc[Render] = "idle")
  /\ (pc[Platform] \in {"ss_lock"} \cup ResizeBody) ~> (pc[Platform] = "idle")

\* ---------------------------------------------------------------- C33 ----
\* C33: while a transfer has the staging texture mapped and is about to run
\* its copy loops, the staging texture and the shared texture exist and have
\* the size m_width x m_height the loops use, so the loops write inside the
\* mapped memory; this holds after resizes that succeeded and that failed.
C33_MappedSizeIsLoopSize ==
  pc[Render] = "copy_write" =>
    /\ wgl.m_stagingTexture # NoTexture /\ wgl.m_sharedTexture # NoTexture
    /\ <<wgl.m_stagingTexture.w, wgl.m_stagingTexture.h>> = <<wgl.m_width, wgl.m_height>>
    /\ <<wgl.m_sharedTexture.w, wgl.m_sharedTexture.h>> = <<wgl.m_width, wgl.m_height>>
    /\ DOMAIN stagingPixels = 0..(wgl.m_height - 1)
    /\ \A y \in DOMAIN stagingPixels : DOMAIN stagingPixels[y] = 0..(wgl.m_width - 1)

\* A transfer has mapped the staging texture of a surface that was resized
\* to another size.
C33_Witness ==
  /\ pc[Render] = "copy_write"
  /\ IdOf(wgl.m_stagingTexture) > 1
  /\ <<wgl.m_width, wgl.m_height>> # <<MaxDim, MaxDim>>

\* ---------------------------------------------------------------- C34 ----
\* No thread is inside SetSurfaceSize / CreateSharedTexture.
NoRecreation == \A t \in Threads : pc[t] \notin ResizeBody

\* C34: after construction, resizes (with any allocation step failing) and
\* cleanups, a staging texture that is not null comes with the shared
\* texture and the shareable handle of the same CreateSharedTexture call,
\* both alive; and no staging texture was released whose shared texture
\* lives on.
C34_StagingIsPaired ==
  NoRecreation =>
    /\ wgl.m_stagingTexture # NoTexture =>
         /\ wgl.m_sharedTexture # NoTexture /\ wgl.m_sharedHandle # Null
         /\ IdOf(wgl.m_sharedTexture) = IdOf(wgl.m_stagingTexture)
         /\ wgl.m_sharedHandle = IdOf(wgl.m_stagingTexture)
         /\ IdOf(wgl.m_stagingTexture) \notin d3d.releasedTextures \cup d3d.releasedStaging
         /\ wgl.m_sharedHandle \notin d3d.closedHandles
    /\ d3d.releasedStaging \subseteq d3d.releasedTextures

\* A resize failed after it had created the new shared texture: the factory
\* holds a shared texture and no staging texture.
C34_Witness ==
  /\ NoRecreation /\ native.g_threadSafeFactory
  /\ wgl.m_stagingTexture = NoTexture /\ wgl.m_sharedTexture # NoTexture
  /\ d3d.releasedStaging # {}

\* ---------------------------------------------------------------- C35 ----
\* C35: while the render thread, with the draw context current, is inside
\* Present or SetSurfaceSize, no step changes the draw context's
\* GL_FRAMEBUFFER binding: after the call the binding is the one from before.
C35_KeepsFramebufferBinding ==
  [][(current[Render] = "draw" /\ (pc[Render] # "idle" \/ pc'[Render] # "idle"))
       => binding'.bound = binding.bound]_vars

\* ---------------------------------------------------------------- C36 ----
\* The most dispatches a behaviour can log.
MaxDispatches == MaxPresents + MaxEngineCalls

\* C36: every transferred frame is eventually announced: once a transfer
\* has flushed its copy, a frame-ready notification is dispatched after it,
\* also when no Present follows.
C36_EventuallyAnnounced ==
  \A n \in 0..MaxDispatches :
    (pc[Render] = "frame_cb" /\ xfer.flushed /\ Len(dispatchLog) = n)
      ~> (Len(dispatchLog) > n)

\* ---------------------------------------------------------------- C37 ----
\* C37: the global factory pointer is null or points to the factory the
\* thread-safe wrapper owns, in every state; and no accessor call of the
\* compositor thread reads through the pointer while the factory it points
\* to has been deleted.
C37_FactoryPointerLive ==
  /\ [](native.g_wglFactory => native.g_threadSafeFactory)
  /\ [][(sample.pc = "idle" /\ sample'.pc = "queried")
          => (native.g_wglFactory => native.g_threadSafeFactory)]_vars

\* ---------------------------------------------------------------- C38 ----
\* C38: while the plugin exists, at most one texture is registered with the
\* registrar, it is the one texture_id_ names, and texture_id_ >= 0 exactly
\* when that texture is registered (no registered id has been forgotten).
C38_OneRegisteredTexture ==
  plugin.g_pluginInstance /\ native.call # "dtor" =>
    /\ Cardinality(plugin.registered) <= 1
    /\ plugin.registered \subseteq {plugin.texture_id_}
    /\ plugin.texture_id_ >= 0 <=> plugin.texture_id_ \in plugin.registered

\* ---------------------------------------------------------------- C39 ----
\* C39: a SetSurfaceSize(w, h) that finds the factory at size w x h without
\* a shared or staging texture (the recreation of an earlier
\* SetSurfaceSize(w, h) failed) does not return at once: it goes on to
\* recreate the texture.
C39_SameSizeRetries ==
  [][\A t \in Threads :
       (/\ pc[t] = "ss_lock" /\ pc'[t] # "ss_lock"
        /\ arg[t] = <<wgl.m_width, wgl.m_height>>
        /\ wgl.m_sharedTexture = NoTexture \/ wgl.m_stagingTexture = NoTexture)
       => pc'[t] = "ss_makecurrent"]_vars

\* ---------------------------------------------------------------- C40 ----
\* What SetSurfaceSize can change of the factory.
SurfaceState ==
  <<wgl.m_width, wgl.m_height, gl.storage, gl.fboComplete, wgl.m_sharedTexture,
    wgl.m_stagingTexture, wgl.m_sharedHandle, d3d.closedHandles,
    d3d.releasedTextures, d3d.releasedStaging, d3d.createCalls>>

\* C40: a SetSurfaceSize that cannot make the draw context current returns
\* with the factory unchanged: from the step that takes the lock to the
\* return, width, height, GL attachments, shared texture, staging texture
\* and shareable handle stay what they were, and the lock is released.
C40_FailedMakeCurrentChangesNothing ==
  [][\A t \in Threads :
       /\ ((pc[t] = "ss_makecurrent" \/ pc'[t] = "ss_makecurrent")
            /\ pc'[t] \in {"ss_makecurrent", "idle"})
          => SurfaceState' = SurfaceState
       /\ (pc[t] = "ss_makecurrent" /\ pc'[t] = "idle")
          => (wgl'.m_mutex = "free" /\ current' = current)]_vars

\* The platform thread's SetSurfaceSize to another size has returned while
\* the draw context is current on the render thread, and nothing was created.
C40_Witness ==
  /\ pc[Platform] = "idle" /\ current[Render] = "draw"
  /\ arg[Platform] \in Dims \X Dims
  /\ arg[Platform] # <<wgl.m_width, wgl.m_height>>
  /\ d3d.createCalls = 1 /\ wgl.m_mutex = "free"
  /\ wgl.m_sharedTexture # NoTexture

====
